---- MODULE Spec2Model ----
(***************************************************************************)
(* The request/session orchestration core of the ReqRes task register:     *)
(* the configuration value (config.ts), the transport client and the API   *)
(* calls (api.ts), the session store and the App component's handlers      *)
(* (App.tsx: loadStoredSession, persistSession, ensureActiveSession,       *)
(* clearSession, handleVerifyToken, refreshTodos, ...).                    *)
(*                                                                         *)
(* Spec       the running App: React state, localStorage, the clock and   *)
(*            the asynchronous flows in flight.                            *)
(* SpecStore  the session store's functions called directly.               *)
(* SpecApi    the API functions of api.ts called directly.                 *)
(***************************************************************************)
EXTENDS Integers, Sequences, FiniteSets, TLC

VARIABLES
    config,      \* the DemoConfig returned by loadConfig()
    hasStorage,  \* typeof localStorage !== "undefined"
    storage,     \* the localStorage item under SESSION_STORAGE_KEY
    now,         \* Date.now()
    app,         \* the App component's React state
    tasks,       \* the asynchronous flows suspended at an await
    last,        \* the most recent call or handler step and the branch it took
    steps        \* the number of steps taken so far

vars == <<config, hasStorage, storage, now, app, tasks, last, steps>>

(***************************************************************************)
(* Bounds of the model.                                                    *)
(***************************************************************************)
MaxTime == 1
MaxSteps == 4

(***************************************************************************)
(* Values.  null/undefined objects are the record Null; an absent, empty   *)
(* or undefined string is ""; a null, undefined or 0 project id is 0 (the  *)
(* code only ever tests project ids for truthiness before using them).     *)
(***************************************************************************)
Null == [null |-> TRUE]

NoProject == 0
ProjectIds == {1, 2}

Tokens == {"t1", "t2"}

Times == 0 .. MaxTime

\* Session.expiresAt as the server sent it: absent, a string Date cannot
\* parse, or a timestamp.
NoExpiry == [kind |-> "absent", t |-> 0]
BadExpiry == [kind |-> "unparseable", t |-> 0]
ExpiresAt(t) == [kind |-> "time", t |-> t]
Expiries == {NoExpiry, BadExpiry} \cup {ExpiresAt(t) : t \in 1 .. MaxTime}

Session(token, expiresAt, projectId) ==
    [token |-> token, expiresAt |-> expiresAt, projectId |-> projectId,
     email |-> "e1"]

Sessions ==
    {Session(tk, e, p) : tk \in Tokens \cup {""}, e \in Expiries,
                         p \in ProjectIds \cup {NoProject}}

(***************************************************************************)
(* config.ts                                                               *)
(***************************************************************************)
\* Strings whose characters matter (base URLs) are sequences of characters.
StripTrailingSlash(s) ==
    IF Len(s) > 0 /\ s[Len(s)] = "/" THEN SubSeq(s, 1, Len(s) - 1) ELSE s

RECURSIVE TrimLeft(_)
TrimLeft(s) ==
    IF Len(s) > 0 /\ s[1] = " " THEN TrimLeft(Tail(s)) ELSE s

RECURSIVE TrimRight(_)
TrimRight(s) ==
    IF Len(s) > 0 /\ s[Len(s)] = " "
    THEN TrimRight(SubSeq(s, 1, Len(s) - 1))
    ELSE s

Trim(s) == TrimLeft(TrimRight(s))

sanitizeBaseUrl(value) ==
    IF value = <<>> THEN <<>> ELSE Trim(StripTrailingSlash(value))

\* Number(value) for the values of VITE_REQRES_PROJECT_ID considered.
numberFromEnv(value) ==
    CASE value = "" -> NoProject
      [] value = "0" -> 0
      [] value = "1" -> 1
      [] value = "2" -> 2
      [] OTHER -> NoProject

\* (value || fallback).trim() for the key and slug variables: a value is
\* unset (""), blank (" ") or a word.
TrimWord(value) == IF value = " " THEN "" ELSE value

DefaultBaseUrl == <<"d">>
DefaultCollectionSlug == "todos"

envConfig(env) ==
    [baseUrl |->
        IF sanitizeBaseUrl(env.baseUrl) # <<>>
        THEN sanitizeBaseUrl(env.baseUrl)
        ELSE DefaultBaseUrl,
     projectId |-> numberFromEnv(env.projectId),
     publicProjectKey |-> TrimWord(env.publicKey),
     manageProjectKey |-> TrimWord(env.manageKey),
     collectionSlug |->
        TrimWord(IF env.slug # "" THEN env.slug ELSE DefaultCollectionSlug)]

\* The environments considered.
EnvBaseUrls ==
    {<<>>, <<"u">>, <<"u", "/">>, <<"u", " ">>, <<"v">>, <<"/", "/">>}

Env(b, p, pk, mk, slug) ==
    [baseUrl |-> b, projectId |-> p, publicKey |-> pk, manageKey |-> mk,
     slug |-> slug]

(***************************************************************************)
(* The session store (App.tsx).                                            *)
(***************************************************************************)
normalizeBaseUrl(value) ==
    \* value || envConfig.baseUrl || "": config is envConfig itself, whose
    \* baseUrl is never empty.
    StripTrailingSlash(IF value # <<>> THEN value ELSE config.baseUrl)

\* The raw localStorage item: none, text that is not JSON, or JSON text.
NoItem == [shape |-> "none"]
Garbage == [shape |-> "text"]
JsonStringify(value) == [shape |-> "json", value |-> value]
JsonParse(raw) == raw.value

StoredSession(session, baseUrl, projectId) ==
    [session |-> session, baseUrl |-> baseUrl, projectId |-> projectId]

\* loadStoredSession that returns null for a stale item and leaves it.
loadStoredSessionNoPurge(cfg, ls, item) ==
    IF ~ls THEN [session |-> Null, storage |-> item]
    ELSE IF item = NoItem THEN [session |-> Null, storage |-> item]
    ELSE IF item.shape # "json" THEN [session |-> Null, storage |-> item]
    ELSE
      LET parsed == JsonParse(item)
          stored ==
            IF "session" \in DOMAIN parsed /\ parsed.session # Null
            THEN parsed
            ELSE IF "token" \in DOMAIN parsed /\ parsed.token # ""
            THEN StoredSession(parsed, <<>>, parsed.projectId)
            ELSE Null
      IN  IF stored = Null THEN [session |-> Null, storage |-> item]
          ELSE IF stored.session.token = ""
          THEN [session |-> Null, storage |-> item]
          ELSE IF stored.baseUrl = <<>>
                  \/ stored.baseUrl # normalizeBaseUrl(cfg.baseUrl)
          THEN [session |-> Null, storage |-> item]
          ELSE IF /\ cfg.projectId # NoProject
                  /\ stored.projectId # NoProject
                  /\ cfg.projectId # stored.projectId
          THEN [session |-> Null, storage |-> item]
          ELSE [session |-> stored.session, storage |-> item]

\* loadStoredSession(config): the session returned and the item left.
loadStoredSession(cfg, ls, item) ==
    IF ~ls THEN [session |-> Null, storage |-> item]
    ELSE IF item = NoItem THEN [session |-> Null, storage |-> item]
    ELSE IF item.shape # "json" THEN [session |-> Null, storage |-> item]
    ELSE
      LET parsed == JsonParse(item)
          stored ==
            IF "session" \in DOMAIN parsed /\ parsed.session # Null
            THEN parsed
            ELSE IF "token" \in DOMAIN parsed /\ parsed.token # ""
            THEN StoredSession(parsed, <<>>, parsed.projectId)
            ELSE Null
      IN  IF stored = Null THEN [session |-> Null, storage |-> item]
          ELSE IF stored.session.token = ""
          THEN [session |-> Null, storage |-> item]
          ELSE IF stored.baseUrl = <<>>
                  \/ stored.baseUrl # normalizeBaseUrl(cfg.baseUrl)
          THEN [session |-> Null, storage |-> NoItem]
          ELSE IF /\ cfg.projectId # NoProject
                  /\ stored.projectId # NoProject
                  /\ cfg.projectId # stored.projectId
          THEN [session |-> Null, storage |-> NoItem]
          ELSE [session |-> stored.session, storage |-> item]

hasStoredSessionToken(cfg, ls, item) ==
    LET loaded == loadStoredSession(cfg, ls, item).session
    IN  loaded # Null /\ loaded.token # ""

\* persistSession that stores the bare session, as the earlier version did.
persistSessionLegacy(session, cfg, ls, item) ==
    IF ~ls THEN item ELSE JsonStringify(session)

\* persistSession(session, config): the item left.
persistSession(session, cfg, ls, item) ==
    IF ~ls THEN item
    ELSE JsonStringify(StoredSession(session,
                                     normalizeBaseUrl(cfg.baseUrl),
                                     session.projectId))

\* localStorage.removeItem(SESSION_STORAGE_KEY) where localStorage exists.
removeStoredSession(ls, item) == IF ls THEN NoItem ELSE item

\* isSessionExpired comparing with < in place of <=.
isSessionExpiredStrict(session, t) ==
    IF session = Null THEN TRUE
    ELSE IF session.expiresAt.kind = "absent" THEN TRUE
    ELSE IF session.expiresAt.kind = "unparseable" THEN TRUE
    ELSE session.expiresAt.t < t

\* isSessionExpired without the Number.isNaN test: NaN <= Date.now() is
\* false.
isSessionExpiredNoNaNCheck(session, t) ==
    IF session = Null THEN TRUE
    ELSE IF session.expiresAt.kind = "absent" THEN TRUE
    ELSE IF session.expiresAt.kind = "unparseable" THEN FALSE
    ELSE session.expiresAt.t <= t

isSessionExpired(session, t) ==
    IF session = Null THEN TRUE
    ELSE IF session.expiresAt.kind = "absent" THEN TRUE
    ELSE IF session.expiresAt.kind = "unparseable" THEN TRUE
    ELSE session.expiresAt.t <= t

(***************************************************************************)
(* The transport client and the API calls (api.ts).                        *)
(***************************************************************************)
\* RequestOptions; usePublicProjectKey and useManageProjectKey are passed
\* by no caller, and body is Null where the caller passes none.
Options(method, require, token, body) ==
    [method |-> method, require |-> require, token |-> token,
     body |-> body,
     usePublicProjectKey |-> FALSE, useManageProjectKey |-> FALSE]

\* TodoPayload.
TodoPayload(title, notes, completed) ==
    [title |-> title, notes |-> notes, completed |-> completed]

\* The URL path and query of a request; the fields a route does not use are
\* "" or 0.
Path(route, projectId, slug, id, limit, page) ==
    [route |-> route, projectId |-> projectId, slug |-> slug, id |-> id,
     order |-> IF limit = 0 THEN "" ELSE "desc", limit |-> limit,
     page |-> page]

\* What a call has done when it reaches its first await or throws: thrown
\* an ApiError before fetch(), or sent one request.
Threw(message) == [threw |-> TRUE, message |-> message, request |-> Null]
Sent(request) == [threw |-> FALSE, message |-> "", request |-> request]

\* jsonRequest attaching the public key whenever the configuration has one.
jsonRequestAlwaysKey(cfg, path, options) ==
    LET authorization ==
          IF options.require = "session" THEN options.token ELSE ""
        xApiKey ==
          IF options.require = "manage" THEN cfg.manageProjectKey
          ELSE cfg.publicProjectKey
    IN  IF options.require = "session" /\ options.token = ""
        THEN Threw("Access is required for this action.")
        ELSE IF options.require = "public" /\ cfg.publicProjectKey = ""
        THEN Threw("Public access key is missing.")
        ELSE IF options.require = "manage" /\ cfg.manageProjectKey = ""
        THEN Threw("Management access key is missing.")
        ELSE Sent([method |-> options.method,
                   path |-> path,
                   accept |-> "application/json",
                   contentType |->
                     IF options.body # Null THEN "application/json" ELSE "",
                   body |-> options.body,
                   authorization |-> authorization,
                   xApiKey |-> xApiKey])

\* jsonRequest up to fetch(url, requestInit): the headers it builds.
jsonRequest(cfg, path, options) ==
    LET authorization ==
          IF options.require = "session" THEN options.token ELSE ""
        publicKey ==
          IF options.require = "public" THEN cfg.publicProjectKey
          ELSE IF options.usePublicProjectKey /\ cfg.publicProjectKey # ""
          THEN cfg.publicProjectKey
          ELSE ""
        xApiKey ==
          IF options.require = "manage" THEN cfg.manageProjectKey
          ELSE IF options.useManageProjectKey /\ cfg.manageProjectKey # ""
          THEN cfg.manageProjectKey
          ELSE publicKey
    IN  IF options.require = "session" /\ options.token = ""
        THEN Threw("Access is required for this action.")
        ELSE IF options.require = "public" /\ cfg.publicProjectKey = ""
        THEN Threw("Public access key is missing.")
        ELSE IF options.require = "manage" /\ cfg.manageProjectKey = ""
        THEN Threw("Management access key is missing.")
        ELSE Sent([method |-> options.method,
                   path |-> path,
                   accept |-> "application/json",
                   contentType |->
                     IF options.body # Null THEN "application/json" ELSE "",
                   body |-> options.body,
                   authorization |-> authorization,
                   xApiKey |-> xApiKey])

fetchAppUserTotal(cfg) ==
    LET canUsePublic == cfg.publicProjectKey # ""
        canUseManage == cfg.manageProjectKey # ""
    IN  IF cfg.projectId = NoProject
        THEN Threw("Project identifier is missing. Update configuration.")
        ELSE IF ~canUsePublic /\ ~canUseManage
        THEN Threw("Access key is missing. Add a public or management key.")
        ELSE jsonRequest(cfg, Path("/api/projects/:id/app-users/total",
                              cfg.projectId, "", "", 0, 0),
                         Options("GET",
                                 IF canUsePublic THEN "public" ELSE "manage",
                                 "", Null))

requestMagicLink(cfg, email) ==
    IF cfg.projectId = NoProject
    THEN Threw("Project identifier is missing. Update configuration.")
    ELSE IF cfg.publicProjectKey = ""
    THEN Threw("Public access key is missing. Access requests are disabled.")
    ELSE jsonRequest(cfg, Path("/api/app-users/login", 0, "", "", 0, 0),
                     Options("POST", "public", "",
                             [email |-> email,
                              project_id |-> cfg.projectId]))

\* verifyMagicToken without the project identifier test.
verifyMagicTokenNoProjectCheck(cfg, token) ==
    jsonRequest(cfg, Path("/api/app-users/verify", 0, "", "", 0, 0),
                Options("POST", "manage", "",
                        [token |-> token, project_id |-> cfg.projectId]))

verifyMagicToken(cfg, token) ==
    IF cfg.projectId = NoProject
    THEN Threw("Project identifier is missing. Update configuration.")
    ELSE jsonRequest(cfg, Path("/api/app-users/verify", 0, "", "", 0, 0),
                     Options("POST", "manage", "",
                             [token |-> token,
                              project_id |-> cfg.projectId]))

fetchProfile(cfg, sessionToken) ==
    jsonRequest(cfg, Path("/api/app-users/me", 0, "", "", 0, 0),
                Options("GET", "session", sessionToken, Null))

Max(a, b) == IF a >= b THEN a ELSE b
Min(a, b) == IF a <= b THEN a ELSE b

\* fetchTodos: Number(opts.page) || 1 and Number(opts.limit) || 10, clamped.
EffectivePage(page) == Max(1, IF page = 0 THEN 1 ELSE page)
\* The limit fetchTodos would send without Math.min(Math.max(.., 1), 100).
EffectiveLimitNoClamp(limit) == IF limit = 0 THEN 10 ELSE limit

EffectiveLimit(limit) == Min(Max(IF limit = 0 THEN 10 ELSE limit, 1), 100)

fetchTodos(cfg, sessionToken, page, limit) ==
    IF cfg.collectionSlug = ""
    THEN Threw("Task register is not configured.")
    ELSE jsonRequest(cfg, Path("/app/collections/:slug/records", 0,
                          cfg.collectionSlug, "", EffectiveLimit(limit),
                          EffectivePage(page)),
                     Options("GET", "session", sessionToken, Null))

createTodo(cfg, sessionToken, todo) ==
    IF cfg.collectionSlug = ""
    THEN Threw("Task register is not configured.")
    ELSE jsonRequest(cfg, Path("/app/collections/:slug/records", 0,
                          cfg.collectionSlug, "", 0, 0),
                     Options("POST", "session", sessionToken,
                             [data |-> todo]))

updateTodo(cfg, sessionToken, todoId, todo) ==
    IF cfg.collectionSlug = ""
    THEN Threw("Task register is not configured.")
    ELSE jsonRequest(cfg, Path("/app/collections/:slug/records/:id", 0,
                          cfg.collectionSlug, todoId, 0, 0),
                     Options("PUT", "session", sessionToken,
                             [data |-> todo]))

deleteTodo(cfg, sessionToken, todoId) ==
    IF cfg.collectionSlug = ""
    THEN Threw("Task register is not configured.")
    ELSE jsonRequest(cfg, Path("/app/collections/:slug/records/:id", 0,
                          cfg.collectionSlug, todoId, 0, 0),
                     Options("DELETE", "session", sessionToken, Null))

(***************************************************************************)
(* The App component (App.tsx): its state and the helpers its handlers     *)
(* share.  A handler's work is written as a function of the "world" w it   *)
(* runs in: w.app the React state, w.storage the stored item and w.tasks   *)
(* the flows in flight.  The text inputs (email, access code, draft title) *)
(* are read when a button is pressed and are parameters of the handlers.   *)
(***************************************************************************)
DEFAULT_PAGE_SIZE == 10
PageSizeOptions == {10, 20}

Ids == {"r1", "r2"}
Todo(id, completed) == [id |-> id, completed |-> completed]

\* normalizeTodo(data): the title, notes and completed a record's data is
\* read as; a field the data lacks reads as "" or false, and any other
\* field of the data is left out.
normalizeTodo(data) ==
    [title |-> IF "title" \in DOMAIN data THEN data.title ELSE <<>>,
     notes |-> IF "notes" \in DOMAIN data THEN data.notes ELSE <<>>,
     completed |-> IF "completed" \in DOMAIN data THEN data.completed
                   ELSE FALSE]

InitialApp(session) ==
    [session |-> session, profile |-> Null, todos |-> <<>>,
     todoDrafts |-> {}, activeEditId |-> "", todoBusyId |-> "",
     status |-> "", error |-> "", requesting |-> FALSE,
     verifying |-> FALSE, loadingTodos |-> FALSE, creatingTodo |-> FALSE,
     magicResult |-> Null, todoMeta |-> Null, todoPage |-> 1,
     todoPageSize |-> DEFAULT_PAGE_SIZE, filter |-> "all"]

\* configWarnings reporting one message for whatever is missing.
configWarningsOneMessage(cfg) ==
    IF \/ cfg.projectId = NoProject
       \/ cfg.publicProjectKey = ""
       \/ cfg.manageProjectKey = ""
       \/ cfg.collectionSlug = ""
    THEN <<"Add a project ID">>
    ELSE <<>>

configWarnings(cfg) ==
    (IF cfg.projectId = NoProject THEN <<"Add a project ID">> ELSE <<>>)
    \o (IF cfg.publicProjectKey = ""
        THEN <<"Add the public project key">> ELSE <<>>)
    \o (IF cfg.manageProjectKey = ""
        THEN <<"Add the manage project key">> ELSE <<>>)
    \o (IF cfg.collectionSlug = ""
        THEN <<"Set a collection slug">> ELSE <<>>)

configReady == Len(configWarnings(config)) = 0

World(a, item, ts) == [app |-> a, storage |-> item, tasks |-> ts]

Set(w, field, value) == [w EXCEPT !.app[field] = value]

\* A flow suspended at an await, with what its closure captured when its
\* handler started: the session, the page size and, for a delete, the page
\* to list next and whether the record was being edited.
Task(flow, await, request, session, limit, page, id, flag) ==
    [flow |-> flow, await |-> await, request |-> request,
     session |-> session, limit |-> limit, page |-> page, id |-> id,
     flag |-> flag]

\* The flows in flight are a sequence, oldest first; a new flow takes the
\* place NewSlot.
NewSlot(ts) == Len(ts) + 1
PutTask(ts, i, task) ==
    IF i > Len(ts) THEN Append(ts, task) ELSE [ts EXCEPT ![i] = task]
DropTask(ts, i) ==
    IF i > Len(ts) THEN ts
    ELSE SubSeq(ts, 1, i - 1) \o SubSeq(ts, i + 1, Len(ts))

\* The ApiError (or other error) a failed call rejects with, and the
\* message a handler shows for it.
ApiError(message) == [isApiError |-> TRUE, message |-> message]
NetworkError == [isApiError |-> FALSE, message |-> "Failed to fetch"]
ErrorMessage(err, fallback) ==
    IF err.isApiError THEN err.message ELSE fallback

\* clearSession without localStorage.removeItem.
clearSessionKeepsStored(w) ==
    [w EXCEPT !.app = [@ EXCEPT !.session = Null,
                                !.profile = Null,
                                !.todos = <<>>,
                                !.activeEditId = "",
                                !.todoDrafts = {},
                                !.todoMeta = Null,
                                !.todoPage = 1,
                                !.todoPageSize = DEFAULT_PAGE_SIZE,
                                !.status = "Signed out."]]

\* clearSession without setTodoPageSize(DEFAULT_PAGE_SIZE).
clearSessionKeepsPageSize(w) ==
    [w EXCEPT !.app = [@ EXCEPT !.session = Null,
                                !.profile = Null,
                                !.todos = <<>>,
                                !.activeEditId = "",
                                !.todoDrafts = {},
                                !.todoMeta = Null,
                                !.todoPage = 1,
                                !.status = "Signed out."],
              !.storage = removeStoredSession(hasStorage, @)]

\* clearSession showing its notice only when there was a session to clear.
clearSessionNoticeOnce(w) ==
    [w EXCEPT !.app = [@ EXCEPT !.session = Null,
                                !.profile = Null,
                                !.todos = <<>>,
                                !.activeEditId = "",
                                !.todoDrafts = {},
                                !.todoMeta = Null,
                                !.todoPage = 1,
                                !.todoPageSize = DEFAULT_PAGE_SIZE,
                                !.status = IF w.app.session # Null
                                           THEN "Signed out." ELSE ""],
              !.storage = removeStoredSession(hasStorage, @)]

clearSession(w) ==
    [w EXCEPT !.app = [@ EXCEPT !.session = Null,
                                !.profile = Null,
                                !.todos = <<>>,
                                !.activeEditId = "",
                                !.todoDrafts = {},
                                !.todoMeta = Null,
                                !.todoPage = 1,
                                !.todoPageSize = DEFAULT_PAGE_SIZE,
                                !.status = "Signed out."],
              !.storage = removeStoredSession(hasStorage, @)]

\* ensureActiveSession without the isSessionExpired test.
ensureActiveSessionIgnoresExpiry(w, activeSession, missingMessage) ==
    LET loaded == loadStoredSession(config, hasStorage, w.storage)
        w1 == [w EXCEPT !.storage = loaded.storage]
    IN  IF activeSession = Null
        THEN [session |-> Null, verdict |-> "missing",
              w |-> Set(w, "error", missingMessage)]
        ELSE IF ~hasStoredSessionToken(config, hasStorage, w.storage)
        THEN [session |-> Null, verdict |-> "inactive",
              w |-> clearSession(Set(w1, "error",
                                     "Access not active. Request access."))]
        ELSE [session |-> activeSession, verdict |-> "ok", w |-> w1]

\* ensureActiveSession(activeSession, missingMessage): the session it
\* returns (Null when it rejects), the branch taken and the world left.
ensureActiveSession(w, activeSession, missingMessage) ==
    LET loaded == loadStoredSession(config, hasStorage, w.storage)
        w1 == [w EXCEPT !.storage = loaded.storage]
    IN  IF activeSession = Null
        THEN [session |-> Null, verdict |-> "missing",
              w |-> Set(w, "error", missingMessage)]
        ELSE IF ~hasStoredSessionToken(config, hasStorage, w.storage)
        THEN [session |-> Null, verdict |-> "inactive",
              w |-> clearSession(Set(w1, "error",
                                     "Access not active. Request access."))]
        ELSE IF isSessionExpired(activeSession, now)
        THEN [session |-> Null, verdict |-> "expired",
              w |-> clearSession(Set(w1, "error",
                                     "Access expired. Request access again."))]
        ELSE [session |-> activeSession, verdict |-> "ok", w |-> w1]

\* The callers of refreshTodos without their finally blocks.
AfterRefreshKeepsFlags(w, flow) ==
    CASE flow = "create" -> Set(w, "status", "Record created.")
      [] flow = "delete" -> Set(w, "status", "Record archived.")
      [] OTHER -> w

\* What follows refreshTodos in the flow that called it (the rest of the
\* try block and the finally block).
AfterRefresh(w, flow) ==
    CASE flow = "create" ->
           Set(Set(w, "status", "Record created."), "creatingTodo", FALSE)
      [] flow = "delete" ->
           Set(Set(w, "status", "Record archived."), "todoBusyId", "")
      [] flow = "verify" -> Set(w, "verifying", FALSE)
      [] OTHER -> w

\* refreshTodos({page, limit, activeSession}) called by `flow` in slot i, up
\* to its await: the branch taken and the world left.  When no request is
\* sent the caller's flow goes on at once.  A flow that awaits refreshTodos
\* keeps the record id its handler was called with.
refreshTodos(w, i, flow, page, limit, activeSession) ==
    IF activeSession = Null
    THEN [verdict |-> "none", sent |-> FALSE,
          w |-> [AfterRefresh(w, flow) EXCEPT !.tasks = DropTask(@, i)]]
    ELSE
      LET g == ensureActiveSession(w, activeSession,
                                   "Access required. Request access.")
          w2 == Set(Set(g.w, "loadingTodos", TRUE), "error", "")
          call == fetchTodos(config, g.session.token, page, limit)
      IN  IF g.session = Null
          THEN [verdict |-> g.verdict, sent |-> FALSE,
                w |-> [AfterRefresh(g.w, flow) EXCEPT
                        !.tasks = DropTask(@, i)]]
          ELSE IF call.threw
          THEN [verdict |-> "ok", sent |-> FALSE,
                w |-> [AfterRefresh(
                         Set(Set(w2, "error", call.message),
                             "loadingTodos", FALSE), flow)
                       EXCEPT !.tasks = DropTask(@, i)]]
          ELSE [verdict |-> "ok", sent |-> TRUE,
                w |-> [w2 EXCEPT !.tasks =
                         PutTask(@, i,
                                 Task(flow, "list", call.request,
                                      activeSession, limit, page,
                                      IF i <= Len(w.tasks) THEN w.tasks[i].id
                                      ELSE "",
                                      FALSE))]]

\* The effects that follow a render in which session changed (useEffect
\* [session, configReady]): persist the session, then validate it and load
\* the operator profile.
SessionEffects(w) ==
    IF w.app.session = Null \/ ~configReady THEN w
    ELSE
      LET w1 == [w EXCEPT !.storage =
                   persistSession(w.app.session, config, hasStorage, @)]
          g == ensureActiveSession(w1, w1.app.session,
                                   "Access required. Request access.")
          call == fetchProfile(config, g.session.token)
      IN  IF g.session = Null THEN g.w
          ELSE IF call.threw
          THEN clearSession(
                 Set(Set(g.w, "profile", Null), "error",
                     "Access expired. Request access again."))
          ELSE [g.w EXCEPT !.tasks =
                  Append(@, Task("effect", "profile", call.request,
                                 g.session, g.w.app.todoPageSize, 1, "",
                                 FALSE))]

\* The branch ensureActiveSession takes in those effects ("none" when they
\* return before calling it).
EffectVerdict(w) ==
    IF w.app.session = Null \/ ~configReady THEN "none"
    ELSE ensureActiveSession(
           [w EXCEPT !.storage =
              persistSession(w.app.session, config, hasStorage, @)],
           w.app.session, "Access required. Request access.").verdict

(***************************************************************************)
(* What the external service may answer, and what the operator may type.   *)
(***************************************************************************)
Ok(data) == [ok |-> TRUE, data |-> data]
Failed(err) == [ok |-> FALSE, data |-> err]
Failures == {Failed(ApiError("denied"))}

\* The sessions a verify exchange returns: well formed, or with one field
\* missing, malformed or of another project.
ServerSessions ==
    {Session(tk, ExpiresAt(MaxTime), 1) : tk \in Tokens}
    \cup {Session("", ExpiresAt(MaxTime), 1),
          Session("t1", NoExpiry, 1),
          Session("t1", ExpiresAt(MaxTime), 2)}

LoginPayloads == {[sent |-> TRUE, token |-> <<"c">>]}

Me == [id |-> "op1", email |-> "e1"]

TodoPages == {<<>>, <<Todo("r1", FALSE), Todo("r2", TRUE)>>}

\* The number of pages the service reports when it sends a meta.
ServerPages == 2

Meta(page, limit, total, pages) ==
    [page |-> page, limit |-> limit, total |-> total, pages |-> pages]

\* A meta that reports a page and a page size only, neither of them the one
\* asked for nor one fetchTodos would ask for.
PartialMetas == {[page |-> 0, limit |-> 101]}

\* The meta a list response carries for a request of (page, limit): none,
\* or one that is consistent with the data returned.
ServerMetas(page, limit, data) ==
    {Null, Meta(page, limit, (ServerPages - 1) * limit + Len(data),
                ServerPages)}

\* What the operator types, character by character: nothing, blanks, or
\* text with a blank beside it.
Emails == {<<>>, <<" ">>, <<"e", " ">>}
Codes == {<<>>, <<" ">>, <<" ", "c">>}
Titles == {<<>>, <<" ">>, <<"T", " ">>}
Notes == {<<" ", "n">>}

(***************************************************************************)
(* The state after the first render and its effects.                       *)
(***************************************************************************)
Step(op, guard, outcome, slot) ==
    [op |-> op, guard |-> guard, outcome |-> outcome, slot |-> slot]

AppEnvs ==
    {Env(<<"u", "/">>, "1", "pk", "mk", ""),
     Env(<<"u">>, "1", "", "mk", ""),
     Env(<<"u">>, "", "pk", "mk", " ")}

\* The items earlier runs (of this version, of the version that stored the
\* bare session, under this base URL or another) may have left.
InitItems ==
    LET s == Session("t1", ExpiresAt(1), 1)
    IN  {NoItem, Garbage, JsonStringify(s),
         JsonStringify(StoredSession(s, <<"u">>, s.projectId)),
         JsonStringify(StoredSession(s, <<"v">>, s.projectId))}

Init ==
    \E env \in AppEnvs, ls \in BOOLEAN, item \in InitItems :
        /\ config = envConfig(env)
        /\ hasStorage = ls
        /\ now = 0
        /\ LET loaded == loadStoredSession(config, ls,
                                           IF ls THEN item ELSE NoItem)
               w0 == World(InitialApp(loaded.session), loaded.storage, <<>>)
               w == SessionEffects(w0)
           IN  /\ app = w.app
               /\ storage = w.storage
               /\ tasks = w.tasks
               /\ last = Step("mount", EffectVerdict(w0), "none", 0)
        /\ steps = 0

Cur == World(app, storage, tasks)

Commit(w, step) ==
    /\ app' = w.app
    /\ storage' = w.storage
    /\ tasks' = w.tasks
    /\ last' = step
    /\ steps < MaxSteps
    /\ steps' = steps + 1
    /\ UNCHANGED <<config, hasStorage, now>>

\* Start the flow `task` when the call it made sent its request.
Start(w, task, op, verdict) ==
    Commit([w EXCEPT !.tasks = Append(@, task)],
           Step(op, verdict, "sent", NewSlot(w.tasks)))

(***************************************************************************)
(* The handlers, up to their first await.                                  *)
(***************************************************************************)
handleRequestLink(email) ==
    LET w1 == Set(Set(Set(Cur, "requesting", TRUE), "status", ""),
                  "error", "")
        call == requestMagicLink(config, Trim(email))
    IN  IF ~configReady
        THEN Commit(Set(Cur, "error", "System configuration is incomplete."),
                    Step("handleRequestLink", "none", "notReady", 0))
        ELSE IF call.threw
        THEN Commit(Set(Set(w1, "error", call.message), "requesting", FALSE),
                    Step("handleRequestLink", "none", "threw", 0))
        ELSE Start(w1, Task("login", "login", call.request, Null, 0, 0, "",
                            FALSE),
                   "handleRequestLink", "none")

\* handleVerifyToken without the test of the access code typed.
handleVerifyTokenNoCodeCheck(code) ==
    LET w1 == Set(Set(Set(Cur, "verifying", TRUE), "error", ""),
                  "status", "")
        call == verifyMagicToken(config, Trim(code))
    IN  IF ~configReady
        THEN Commit(Set(Cur, "error", "System configuration is incomplete."),
                    Step("handleVerifyToken", "none", "notReady", 0))
        ELSE IF call.threw
        THEN Commit(Set(Set(w1, "error", call.message), "verifying", FALSE),
                    Step("handleVerifyToken", "none", "threw", 0))
        ELSE Start(w1, Task("verify", "verify", call.request, Null,
                            app.todoPageSize, 1, "", FALSE),
                   "handleVerifyToken", "none")

handleVerifyToken(code) ==
    LET w1 == Set(Set(Set(Cur, "verifying", TRUE), "error", ""),
                  "status", "")
        call == verifyMagicToken(config, Trim(code))
    IN  IF ~configReady
        THEN Commit(Set(Cur, "error", "System configuration is incomplete."),
                    Step("handleVerifyToken", "none", "notReady", 0))
        ELSE IF Trim(code) = <<>>
        THEN Commit(Set(Cur, "error", "Enter the access code to continue."),
                    Step("handleVerifyToken", "none", "rejected", 0))
        ELSE IF call.threw
        THEN Commit(Set(Set(w1, "error", call.message), "verifying", FALSE),
                    Step("handleVerifyToken", "none", "threw", 0))
        ELSE Start(w1, Task("verify", "verify", call.request, Null,
                            app.todoPageSize, 1, "", FALSE),
                   "handleVerifyToken", "none")

\* The Sign out button: clearSession.
signOut == Commit(clearSession(Cur), Step("clearSession", "none", "ok", 0))

\* The Refresh list button, and the refreshTodos calls of handlePageChange
\* and handlePageSizeChange.
RefreshNow(w, op, page, limit) ==
    LET i == NewSlot(w.tasks)
        r == refreshTodos(w, i, "refresh", page, limit, w.app.session)
    IN  Commit(r.w, Step(op, r.verdict,
                         IF r.sent THEN "sent" ELSE "denied", i))

handleRefresh == RefreshNow(Cur, "refreshTodos", app.todoPage, app.todoPageSize)

handlePageChange(direction) ==
    LET current == IF app.todoMeta # Null /\ app.todoMeta.page # 0
                   THEN app.todoMeta.page ELSE app.todoPage
        totalPages == IF app.todoMeta # Null /\ app.todoMeta.pages # 0
                      THEN app.todoMeta.pages ELSE 1
        nextPage == IF direction = "prev" THEN Max(1, current - 1)
                    ELSE Min(totalPages, current + 1)
    IN  RefreshNow(Set(Cur, "todoPage", nextPage), "handlePageChange",
                   nextPage, app.todoPageSize)

handlePageSizeChange(nextLimit) ==
    LET clamped == Min(Max(nextLimit, 1), 100)
    IN  RefreshNow(Set(Set(Cur, "todoPage", 1), "todoPageSize", clamped),
                   "handlePageSizeChange", 1, clamped)

\* handleCreateTodo without the test of the title typed.
handleCreateTodoNoTitleCheck(title, notes) ==
    LET g == ensureActiveSession(Cur, app.session,
                                 "Access required. Request access.")
        w1 == Set(Set(g.w, "creatingTodo", TRUE), "error", "")
        call == createTodo(config, g.session.token,
                           TodoPayload(Trim(title), Trim(notes), FALSE))
    IN  IF g.session = Null
        THEN Commit(g.w, Step("handleCreateTodo", g.verdict, "denied", 0))
        ELSE IF call.threw
        THEN Commit(Set(Set(w1, "error", call.message), "creatingTodo",
                        FALSE),
                    Step("handleCreateTodo", "ok", "threw", 0))
        ELSE Start(w1, Task("create", "create", call.request, app.session,
                            app.todoPageSize, 1, "", FALSE),
                   "handleCreateTodo", "ok")

\* handleCreateTodo(), the draft's title and notes as typed.
handleCreateTodo(title, notes) ==
    LET g == ensureActiveSession(Cur, app.session,
                                 "Access required. Request access.")
        w1 == Set(Set(g.w, "creatingTodo", TRUE), "error", "")
        call == createTodo(config, g.session.token,
                           TodoPayload(Trim(title), Trim(notes), FALSE))
    IN  IF g.session = Null
        THEN Commit(g.w, Step("handleCreateTodo", g.verdict, "denied", 0))
        ELSE IF Trim(title) = <<>>
        THEN Commit(Set(g.w, "error", "Enter a record title before saving."),
                    Step("handleCreateTodo", "ok", "rejected", 0))
        ELSE IF call.threw
        THEN Commit(Set(Set(w1, "error", call.message), "creatingTodo",
                        FALSE),
                    Step("handleCreateTodo", "ok", "threw", 0))
        ELSE Start(w1, Task("create", "create", call.request, app.session,
                            app.todoPageSize, 1, "", FALSE),
                   "handleCreateTodo", "ok")

beginEditTodo(todo) ==
    Commit([Cur EXCEPT !.app.activeEditId = todo.id,
                       !.app.todoDrafts = @ \cup {todo.id},
                       !.app.status = "",
                       !.app.error = ""],
           Step("beginEditTodo", "none", "ok", 0))

cancelEditTodo ==
    Commit(Set(Set(Cur, "activeEditId", ""), "todoBusyId", ""),
           Step("cancelEditTodo", "none", "ok", 0))

\* handleUpdateTodo(todoId), the draft's title, notes and status as typed.
handleUpdateTodo(todoId, title, notes, completed) ==
    LET g == ensureActiveSession(Cur, app.session,
                                 "Access required. Request access.")
        w1 == Set(Set(Set(g.w, "todoBusyId", todoId), "error", ""),
                  "status", "")
        call == updateTodo(config, g.session.token, todoId,
                           TodoPayload(Trim(title), Trim(notes), completed))
    IN  IF g.session = Null
        THEN Commit(g.w, Step("handleUpdateTodo", g.verdict, "denied", 0))
        ELSE IF todoId \notin app.todoDrafts \/ Trim(title) = <<>>
        THEN Commit(Set(g.w, "error", "Enter a record title before saving."),
                    Step("handleUpdateTodo", "ok", "rejected", 0))
        ELSE IF call.threw
        THEN Commit(Set(Set(w1, "error", call.message), "todoBusyId", ""),
                    Step("handleUpdateTodo", "ok", "threw", 0))
        ELSE Start(w1, Task("update", "update", call.request, app.session,
                            app.todoPageSize, 1, todoId, completed),
                   "handleUpdateTodo", "ok")

handleToggleTodo(todo) ==
    LET g == ensureActiveSession(Cur, app.session,
                                 "Access required. Request access.")
        w1 == Set(Set(Set(g.w, "todoBusyId", todo.id), "error", ""),
                  "status", "")
        current == normalizeTodo(todo)
        call == updateTodo(config, g.session.token, todo.id,
                           [current EXCEPT !.completed = ~current.completed])
    IN  IF g.session = Null
        THEN Commit(g.w, Step("handleToggleTodo", g.verdict, "denied", 0))
        ELSE IF call.threw
        THEN Commit(Set(Set(w1, "error", call.message), "todoBusyId", ""),
                    Step("handleToggleTodo", "ok", "threw", 0))
        ELSE Start(w1, Task("toggle", "update", call.request, app.session,
                            app.todoPageSize, 1, todo.id,
                            ~current.completed),
                   "handleToggleTodo", "ok")

\* handleDeleteTodo listing the loaded page again whatever it held.
handleDeleteTodoSamePage(todoId, confirmDelete) ==
    LET g == ensureActiveSession(Cur, app.session,
                                 "Access required. Request access.")
        w1 == Set(Set(Set(g.w, "todoBusyId", todoId), "error", ""),
                  "status", "")
        call == deleteTodo(config, g.session.token, todoId)
        nextPage ==
          IF app.todoMeta # Null /\ app.todoMeta.page # 0
          THEN app.todoMeta.page
          ELSE 1
    IN  IF g.session = Null
        THEN Commit(g.w, Step("handleDeleteTodo", g.verdict, "denied", 0))
        ELSE IF ~confirmDelete
        THEN Commit(g.w, Step("handleDeleteTodo", "ok", "cancelled", 0))
        ELSE IF call.threw
        THEN Commit(Set(Set(w1, "error", call.message), "todoBusyId", ""),
                    Step("handleDeleteTodo", "ok", "threw", 0))
        ELSE Start(w1, Task("delete", "delete", call.request, app.session,
                            app.todoPageSize, nextPage, todoId,
                            app.activeEditId = todoId),
                   "handleDeleteTodo", "ok")

\* handleDeleteTodo(todoId); confirmDelete is the answer to window.confirm.
handleDeleteTodo(todoId, confirmDelete) ==
    LET g == ensureActiveSession(Cur, app.session,
                                 "Access required. Request access.")
        w1 == Set(Set(Set(g.w, "todoBusyId", todoId), "error", ""),
                  "status", "")
        call == deleteTodo(config, g.session.token, todoId)
        nextPage ==
          IF app.todoMeta # Null /\ Len(app.todos) <= 1
             /\ app.todoMeta.page > 1
          THEN app.todoMeta.page - 1
          ELSE IF app.todoMeta # Null /\ app.todoMeta.page # 0
          THEN app.todoMeta.page
          ELSE 1
    IN  IF g.session = Null
        THEN Commit(g.w, Step("handleDeleteTodo", g.verdict, "denied", 0))
        ELSE IF ~confirmDelete
        THEN Commit(g.w, Step("handleDeleteTodo", "ok", "cancelled", 0))
        ELSE IF call.threw
        THEN Commit(Set(Set(w1, "error", call.message), "todoBusyId", ""),
                    Step("handleDeleteTodo", "ok", "threw", 0))
        ELSE Start(w1, Task("delete", "delete", call.request, app.session,
                            app.todoPageSize, nextPage, todoId,
                            app.activeEditId = todoId),
                   "handleDeleteTodo", "ok")

(***************************************************************************)
(* The flows resumed by the answer to their request.                       *)
(***************************************************************************)
Awaiting(i, await) == tasks[i].await = await

Finish(w, i) == [w EXCEPT !.tasks = DropTask(@, i)]

\* handleRequestLink treating the login response as a session.
LoginResponseSignsIn(i, res) ==
    /\ Awaiting(i, "login")
    /\ IF res.ok
       THEN Commit(Finish(Set(Set(Set(Set(Cur, "magicResult", res.data),
                                      "session",
                                      Session(res.data.token,
                                              ExpiresAt(MaxTime), 1)),
                                  "status", "Access request submitted."),
                              "requesting", FALSE), i),
                   Step("LoginResponse", "none", "ok", i))
       ELSE Commit(Finish(Set(Set(Cur, "error",
                                  ErrorMessage(res.data,
                                    "Access request could not be submitted.")),
                              "requesting", FALSE), i),
                   Step("LoginResponse", "none", "failed", i))

\* handleRequestLink after requestMagicLink.
LoginResponse(i, res) ==
    /\ Awaiting(i, "login")
    /\ IF res.ok
       THEN Commit(Finish(Set(Set(Set(Cur, "magicResult", res.data),
                                  "status", "Access request submitted."),
                              "requesting", FALSE), i),
                   Step("LoginResponse", "none", "ok", i))
       ELSE Commit(Finish(Set(Set(Cur, "error",
                                  ErrorMessage(res.data,
                                    "Access request could not be submitted.")),
                              "requesting", FALSE), i),
                   Step("LoginResponse", "none", "failed", i))

\* handleVerifyToken after verifyMagicToken: the session is stored and set,
\* the profile request is sent, and the render that follows runs the
\* session effects.
VerifyResponse(i, res) ==
    /\ Awaiting(i, "verify")
    /\ IF res.ok
       THEN
         LET newSession == res.data
             w1 == [Cur EXCEPT
                      !.storage = persistSession(newSession, config,
                                                 hasStorage, @),
                      !.app.session = newSession,
                      !.app.magicResult = Null,
                      !.app.status = "Access confirmed. Loading records..."]
             call == fetchProfile(config, newSession.token)
             w2 == IF call.threw
                   THEN Finish(Set(Set(w1, "error", call.message),
                                   "verifying", FALSE), i)
                   ELSE [w1 EXCEPT !.tasks =
                           PutTask(@, i,
                                   Task("verify", "profile", call.request,
                                        newSession, tasks[i].limit, 1, "",
                                        FALSE))]
         IN  Commit(SessionEffects(w2),
                    Step("VerifyResponse", EffectVerdict(w2), "ok", i))
       ELSE Commit(Finish(Set(Set(Cur, "error",
                                  ErrorMessage(res.data,
                                    "Access code could not be confirmed.")),
                              "verifying", FALSE), i),
                   Step("VerifyResponse", "none", "failed", i))

\* After fetchProfile, in handleVerifyToken and in the session effect.
ProfileResponse(i, res) ==
    /\ Awaiting(i, "profile")
    /\ IF res.ok
       THEN
         LET w1 == Set(Set(Set(Cur, "profile", res.data), "todoPage", 1),
                       "todoMeta", Null)
             r == refreshTodos(w1, i, tasks[i].flow, 1, tasks[i].limit,
                               tasks[i].session)
         IN  Commit(r.w, Step("ProfileResponse", r.verdict, "ok", i))
       ELSE IF tasks[i].flow = "effect"
       THEN Commit(Finish(clearSession(
                            Set(Set(Cur, "profile", Null), "error",
                                "Access expired. Request access again.")),
                          i),
                   Step("ProfileResponse", "none", "failed", i))
       ELSE Commit(Finish(Set(Set(Cur, "error",
                                  ErrorMessage(res.data,
                                    "Access code could not be confirmed.")),
                              "verifying", FALSE), i),
                   Step("ProfileResponse", "none", "failed", i))

\* fetchTodos returning the page state it synthesized whatever meta the
\* response carries.
FetchTodosResultIgnoresMeta(res, page, limit) ==
    [data |-> res.data,
     meta |-> Meta(page, limit, Len(res.data),
                   Max(1, (Max(Len(res.data), 1) + limit - 1) \div limit))]

\* fetchTodos after jsonRequest: the page returned and its meta, each field
\* the server's where it sent one.
FetchTodosResult(res, page, limit) ==
    LET fallbackMeta ==
          Meta(page, limit, Len(res.data),
               Max(1, (Max(Len(res.data), 1) + limit - 1) \div limit))
        reported(field) == IF field \in DOMAIN res.meta THEN res.meta[field]
                           ELSE fallbackMeta[field]
    IN  [data |-> res.data,
         meta |-> IF res.meta # Null
                  THEN Meta(reported("page"), reported("limit"),
                            reported("total"), reported("pages"))
                  ELSE fallbackMeta]

\* refreshTodos after fetchTodos, and then the rest of the calling flow.
ListResponse(i, res) ==
    /\ Awaiting(i, "list")
    /\ IF res.ok
       THEN
         LET got == FetchTodosResult(res.data, tasks[i].request.path.page,
                                     tasks[i].request.path.limit)
             w1 == [Cur EXCEPT !.app.todos = got.data,
                               !.app.todoMeta = got.meta,
                               !.app.todoPage = got.meta.page,
                               !.app.todoPageSize = got.meta.limit,
                               !.app.loadingTodos = FALSE]
         IN  Commit(Finish(AfterRefresh(w1, tasks[i].flow), i),
                    Step("ListResponse", "none", "ok", i))
       ELSE
         LET w1 == Set(Set(Cur, "error",
                           ErrorMessage(res.data, "Could not load records.")),
                       "loadingTodos", FALSE)
         IN  Commit(Finish(AfterRefresh(w1, tasks[i].flow), i),
                    Step("ListResponse", "none", "failed", i))

\* handleCreateTodo setting the page to 1 whether or not createTodo
\* succeeded.
CreateResponseResetsPage(i, res) ==
    /\ Awaiting(i, "create")
    /\ IF res.ok
       THEN
         LET r == refreshTodos(Set(Cur, "todoPage", 1), i, "create", 1,
                               tasks[i].limit, tasks[i].session)
         IN  Commit(r.w, Step("CreateResponse", r.verdict, "ok", i))
       ELSE Commit(Finish(Set(Set(Set(Cur, "todoPage", 1), "error",
                                  ErrorMessage(res.data,
                                               "Could not add record.")),
                              "creatingTodo", FALSE), i),
                   Step("CreateResponse", "none", "failed", i))

\* handleCreateTodo adding the created record to the local records instead
\* of listing page 1.
CreateResponseSplices(i, res) ==
    /\ Awaiting(i, "create")
    /\ IF res.ok
       THEN Commit(Finish(Set(Set(Set(Cur, "todos",
                                      <<Todo("r1", FALSE)>> \o app.todos),
                                  "status", "Record created."),
                              "creatingTodo", FALSE), i),
                   Step("CreateResponse", "ok", "ok", i))
       ELSE Commit(Finish(Set(Set(Cur, "error",
                                  ErrorMessage(res.data,
                                               "Could not add record.")),
                              "creatingTodo", FALSE), i),
                   Step("CreateResponse", "none", "failed", i))

\* handleCreateTodo after createTodo.
CreateResponse(i, res) ==
    /\ Awaiting(i, "create")
    /\ IF res.ok
       THEN
         LET r == refreshTodos(Set(Cur, "todoPage", 1), i, "create", 1,
                               tasks[i].limit, tasks[i].session)
         IN  Commit(r.w, Step("CreateResponse", r.verdict, "ok", i))
       ELSE Commit(Finish(Set(Set(Cur, "error",
                                  ErrorMessage(res.data,
                                               "Could not add record.")),
                              "creatingTodo", FALSE), i),
                   Step("CreateResponse", "none", "failed", i))

\* The replacement moving the updated record to the head of the list.
ReplaceTodoAtFront(todos, todoId, updated) ==
    <<updated>> \o SelectSeq(todos, LAMBDA t : t.id # todoId)

ReplaceTodo(todos, todoId, updated) ==
    [k \in 1 .. Len(todos) |->
       IF todos[k].id = todoId THEN updated ELSE todos[k]]

\* handleUpdateTodo and handleToggleTodo after updateTodo.
UpdateResponse(i, res) ==
    /\ Awaiting(i, "update")
    /\ IF res.ok
       THEN
         LET w1 == Set(Cur, "todos",
                       ReplaceTodo(app.todos, tasks[i].id, res.data))
             w2 == IF tasks[i].flow = "update"
                   THEN Set(Set(w1, "status", "Record updated."),
                            "activeEditId", "")
                   ELSE Set(w1, "status",
                            IF tasks[i].flag THEN "Record marked complete."
                            ELSE "Record in progress.")
         IN  Commit(Finish(Set(w2, "todoBusyId", ""), i),
                    Step("UpdateResponse", "none", "ok", i))
       ELSE Commit(Finish(Set(Set(Cur, "error",
                                  ErrorMessage(res.data,
                                               "Could not update record.")),
                              "todoBusyId", ""), i),
                   Step("UpdateResponse", "none", "failed", i))

\* handleDeleteTodo after deleteTodo.
DeleteResponse(i, res) ==
    /\ Awaiting(i, "delete")
    /\ IF res.ok
       THEN
         LET w1 == IF tasks[i].flag THEN Set(Cur, "activeEditId", "")
                   ELSE Cur
             r == refreshTodos(w1, i, "delete", tasks[i].page,
                               tasks[i].limit, tasks[i].session)
         IN  Commit(r.w, Step("DeleteResponse", r.verdict, "ok", i))
       ELSE Commit(Finish(Set(Set(Cur, "error",
                                  ErrorMessage(res.data,
                                               "Could not archive record.")),
                              "todoBusyId", ""), i),
                   Step("DeleteResponse", "none", "failed", i))

(***************************************************************************)
(* The environment: the clock, the status timer, and another tab of the    *)
(* same application writing the localStorage item the tabs share.          *)
(***************************************************************************)
Tick ==
    /\ now < MaxTime
    /\ steps < MaxSteps
    /\ now' = now + 1
    /\ steps' = steps + 1
    /\ last' = Step("Tick", "none", "none", 0)
    /\ UNCHANGED <<config, hasStorage, storage, app, tasks>>

\* useEffect [status]: the notice is dismissed after 2600 ms.
StatusTimeout ==
    /\ app.status # ""
    /\ Commit(Set(Cur, "status", ""), Step("StatusTimeout", "none", "none", 0))

\* The session another tab signs in with.
OtherTabSession == Session("t2", ExpiresAt(MaxTime), 1)

\* Another tab completes a sign-in: its handleVerifyToken calls
\* persistSession.
OtherTabSignIn ==
    /\ hasStorage
    /\ storage # persistSession(OtherTabSession, config, hasStorage, storage)
    /\ Commit([Cur EXCEPT !.storage =
                 persistSession(OtherTabSession, config, hasStorage, @)],
              Step("OtherTabSignIn", "none", "none", 0))

\* Another tab signs out: its clearSession removes the item.
OtherTabSignOut ==
    /\ hasStorage
    /\ storage # NoItem
    /\ Commit([Cur EXCEPT !.storage = removeStoredSession(hasStorage, @)],
              Step("OtherTabSignOut", "none", "none", 0))

(***************************************************************************)
(* The controls rendered and enabled in the current state.                 *)
(***************************************************************************)
RowsShown == app.session # Null /\ ~app.loadingTodos
Rows == {app.todos[k] : k \in 1 .. Len(app.todos)}
currentPage == IF app.todoMeta # Null /\ app.todoMeta.page # 0
               THEN app.todoMeta.page ELSE app.todoPage
totalPages == IF app.todoMeta # Null /\ app.todoMeta.pages # 0
              THEN app.todoMeta.pages ELSE 1

ClickRequest ==
    /\ ~app.requesting /\ configReady /\ app.session = Null
    /\ \E email \in Emails : handleRequestLink(email)

ClickVerify ==
    /\ ~app.verifying /\ configReady
    /\ \E code \in Codes : handleVerifyToken(code)

ClickSignOut == app.session # Null /\ signOut

ClickRefresh == app.session # Null /\ ~app.loadingTodos /\ handleRefresh

ClickPage ==
    /\ app.session # Null /\ ~app.loadingTodos
    /\ \E direction \in {"prev", "next"} :
         /\ direction = "prev" => currentPage > 1
         /\ direction = "next" => currentPage < totalPages
         /\ handlePageChange(direction)

SelectPageSize ==
    /\ app.session # Null
    /\ \E size \in PageSizeOptions : handlePageSizeChange(size)

\* The Add record button never disabled while a create is in flight.
ClickCreateWhileCreating ==
    /\ app.session # Null
    /\ \E title \in Titles, notes \in Notes : handleCreateTodo(title, notes)

ClickCreate ==
    /\ ~app.creatingTodo /\ app.session # Null
    /\ \E title \in Titles, notes \in Notes : handleCreateTodo(title, notes)

ClickEdit ==
    /\ RowsShown
    /\ \E todo \in Rows :
         /\ app.activeEditId # todo.id /\ app.todoBusyId # todo.id
         /\ beginEditTodo(todo)

ClickCancel ==
    /\ RowsShown
    /\ \E todo \in Rows :
         /\ app.activeEditId = todo.id /\ app.todoBusyId # todo.id
         /\ cancelEditTodo

ClickSave ==
    /\ RowsShown
    /\ \E todo \in Rows, title \in Titles, notes \in Notes,
          completed \in BOOLEAN :
         /\ app.activeEditId = todo.id /\ app.todoBusyId # todo.id
         /\ handleUpdateTodo(todo.id, title, notes, completed)

ClickToggle ==
    /\ RowsShown
    /\ \E todo \in Rows :
         /\ app.todoBusyId # todo.id
         /\ handleToggleTodo(todo)

ClickDelete ==
    /\ RowsShown
    /\ \E todo \in Rows, confirmDelete \in BOOLEAN :
         /\ app.todoBusyId # todo.id
         /\ handleDeleteTodo(todo.id, confirmDelete)

\* The answers the service may give to the request of the flow in slot i.
Answers(i) ==
    CASE tasks[i].await = "login" -> {Ok(p) : p \in LoginPayloads}
      [] tasks[i].await = "verify" -> {Ok(x) : x \in ServerSessions}
      [] tasks[i].await = "profile" -> {Ok(Me)}
      [] tasks[i].await = "list" ->
           {Ok([data |-> data, meta |-> meta]) :
              <<data, meta>> \in
                UNION {{<<d, m>> :
                          m \in ServerMetas(tasks[i].request.path.page,
                                            tasks[i].request.path.limit, d)} :
                       d \in TodoPages}}
      [] tasks[i].await = "update" ->
           {Ok(Todo(tasks[i].id, tasks[i].flag))}
      [] OTHER -> {Ok(Null)}

Respond ==
    \E i \in 1 .. Len(tasks) :
        /\ \E res \in Answers(i) \cup Failures :
             \/ LoginResponse(i, res)
             \/ VerifyResponse(i, res)
             \/ ProfileResponse(i, res)
             \/ ListResponse(i, res)
             \/ CreateResponse(i, res)
             \/ UpdateResponse(i, res)
             \/ DeleteResponse(i, res)

Next ==
    \/ ClickRequest
    \/ ClickVerify
    \/ ClickSignOut
    \/ ClickRefresh
    \/ ClickPage
    \/ SelectPageSize
    \/ ClickCreate
    \/ ClickEdit
    \/ ClickCancel
    \/ ClickSave
    \/ ClickToggle
    \/ ClickDelete
    \/ Respond
    \/ Tick
    \/ StatusTimeout
    \/ OtherTabSignIn
    \/ OtherTabSignOut

Spec == Init /\ [][Next]_vars

(***************************************************************************)
(* SpecCalls: the App's handlers called directly with any argument,        *)
(* whether or not the control that calls them is rendered and enabled.     *)
(***************************************************************************)
\* The number of calls and responses followed.
MaxCalls == 3

\* The page sizes asked for, and the (page, page size) pairs refreshTodos is
\* called with: below, at and above the limits.
RequestedSizes == {-1, 0, 500}
RequestedLists == {<<0, 0>>, <<-1, 500>>, <<2, 1>>}

InvokeRequestLink ==
    /\ steps < MaxCalls
    /\ \E email \in Emails : handleRequestLink(email)

InvokeVerifyToken ==
    /\ steps < MaxCalls
    /\ \E code \in Codes : handleVerifyToken(code)

InvokeRefreshTodos ==
    /\ steps < MaxCalls
    /\ \E list \in RequestedLists :
         RefreshNow(Cur, "refreshTodos", list[1], list[2])

InvokePageSizeChange ==
    /\ steps < MaxCalls
    /\ \E nextLimit \in RequestedSizes : handlePageSizeChange(nextLimit)

InvokeCreateTodo ==
    /\ steps < MaxCalls
    /\ \E title \in Titles, notes \in Notes : handleCreateTodo(title, notes)

InvokeBeginEdit ==
    /\ steps < MaxCalls
    /\ \E id \in Ids : beginEditTodo(Todo(id, FALSE))

InvokeUpdateTodo ==
    /\ steps < MaxCalls
    /\ \E id \in Ids, title \in Titles, notes \in Notes :
         handleUpdateTodo(id, title, notes, FALSE)

InvokeDeleteTodo ==
    /\ steps < MaxCalls
    /\ \E id \in Ids : handleDeleteTodo(id, TRUE)

RespondToCall == steps < MaxCalls /\ Respond

TickBetweenCalls == steps < MaxCalls /\ Tick

NextCalls ==
    \/ InvokeRequestLink
    \/ InvokeVerifyToken
    \/ InvokeRefreshTodos
    \/ InvokePageSizeChange
    \/ InvokeCreateTodo
    \/ InvokeBeginEdit
    \/ InvokeUpdateTodo
    \/ InvokeDeleteTodo
    \/ RespondToCall
    \/ TickBetweenCalls

SpecCalls == Init /\ [][NextCalls]_vars

(***************************************************************************)
(* SpecPage: the list view of a signed-in operator, from the states in     *)
(* which a page of records is loaded: any page of the list, holding one    *)
(* record or two.                                                          *)
(***************************************************************************)
\* The pages of the list loaded at the start.
LoadedPageCount == ServerPages + 1

\* The records loaded: one of them carries a title and a field beyond
\* title, notes and completed.
LoadedData ==
    {<<Todo("r1", FALSE)>>,
     <<[id |-> "r1", completed |-> FALSE, title |-> <<"T">>,
        priority |-> 1],
       Todo("r2", TRUE)>>}

LoadedSession == Session("t1", ExpiresAt(MaxTime), 1)

InitPage ==
    \E p \in 1 .. LoadedPageCount, data \in LoadedData :
        /\ config = envConfig(Env(<<"u">>, "1", "pk", "mk", ""))
        /\ hasStorage = TRUE
        /\ now = 0
        /\ storage = persistSession(LoadedSession, config, TRUE, NoItem)
        /\ app = [InitialApp(LoadedSession) EXCEPT
                    !.profile = Me,
                    !.todos = data,
                    !.todoMeta =
                      Meta(p, DEFAULT_PAGE_SIZE,
                           (LoadedPageCount - 1) * DEFAULT_PAGE_SIZE
                             + Len(data),
                           LoadedPageCount),
                    !.todoPage = p]
        /\ tasks = <<>>
        /\ last = Step("ListResponse", "none", "ok", 0)
        /\ steps = 0

NextPage ==
    \/ ClickRefresh
    \/ ClickPage
    \/ ClickCreate
    \/ ClickEdit
    \/ ClickCancel
    \/ ClickSave
    \/ ClickToggle
    \/ ClickDelete
    \/ Respond
    \/ Tick
    \/ OtherTabSignOut

SpecPage == InitPage /\ [][NextPage]_vars

(***************************************************************************)
(* SpecView: the controls of the list view (the completion filter, the     *)
(* refresh, page and page size controls, the status toggle) from the same  *)
(* states as SpecPage, against a service that may also answer a list       *)
(* request with a meta that is partial and out of range.                   *)
(***************************************************************************)
Filters == {"all", "active", "completed"}

\* visibleTodos showing every record under the filter "active".
visibleTodosAllWhenActive(a) ==
    IF a.filter \in {"all", "active"} THEN a.todos
    ELSE LET Completed(todo) == normalizeTodo(todo).completed
         IN  SelectSeq(a.todos, Completed)

\* visibleTodos: the rows shown for the records and the filter of the App
\* state a.
visibleTodos(a) ==
    IF a.filter = "all" THEN a.todos
    ELSE LET needsCompleted == a.filter = "completed"
             Matches(todo) == normalizeTodo(todo).completed = needsCompleted
         IN  SelectSeq(a.todos, Matches)

\* One of the three filter buttons, shown while signed in: setFilter(mode).
ClickFilter ==
    /\ app.session # Null
    /\ \E mode \in Filters :
         Commit(Set(Cur, "filter", mode), Step("setFilter", "none", mode, 0))

\* A list response that carries records and a partial meta.
RespondPartialMeta ==
    \E i \in 1 .. Len(tasks) :
        \E data \in TodoPages \ {<<>>}, meta \in PartialMetas :
            ListResponse(i, Ok([data |-> data, meta |-> meta]))

NextView ==
    \/ ClickFilter
    \/ ClickRefresh
    \/ ClickPage
    \/ SelectPageSize
    \/ ClickToggle
    \/ Respond
    \/ RespondPartialMeta

SpecView == InitPage /\ [][NextView]_vars

(***************************************************************************)
(* SpecStore: the session store's functions called directly, across page   *)
(* loads under one configuration or another.  `last` is the latest call:   *)
(* its argument and what it returned and, for a load, the item it found    *)
(* and the call before it.                                                 *)
(***************************************************************************)
StoreCall(op, session, result, before, prev) ==
    [op |-> op, session |-> session, result |-> result, before |-> before,
     prev |-> prev]

StoreEnvs ==
    {Env(b, p, "pk", "mk", "") :
       b \in {<<"u">>, <<"u", "/">>, <<"v">>, <<"/", "/">>},
       p \in {"", "1"}}

\* The sessions handed to the store: with or without a token, of this
\* project, of another or of none.
StoreSessions ==
    {Session(tk, e, p) : tk \in {"", "t1"},
                         e \in {NoExpiry, BadExpiry, ExpiresAt(MaxTime)},
                         p \in {NoProject, 1, 2}}

InitStore ==
    \E env \in StoreEnvs, ls \in BOOLEAN, item \in InitItems :
        /\ config = envConfig(env)
        /\ hasStorage = ls
        /\ storage = IF ls THEN item ELSE NoItem
        /\ now = 0
        /\ app = InitialApp(Null)
        /\ tasks = <<>>
        /\ last = StoreCall("none", Null, Null, NoItem, "none")
        /\ steps = 0

StorePersist ==
    \E session \in StoreSessions :
        /\ storage' = persistSession(session, config, hasStorage, storage)
        /\ last' = StoreCall("persistSession", session, Null, NoItem,
                             "none")
        /\ UNCHANGED <<config, hasStorage, now, app, tasks, steps>>

StoreLoad ==
    LET loaded == loadStoredSession(config, hasStorage, storage)
    IN  /\ storage' = loaded.storage
        /\ last' = StoreCall("loadStoredSession",
                             IF last.op = "persistSession" THEN last.session
                             ELSE Null,
                             loaded.session, storage, last.op)
        /\ UNCHANGED <<config, hasStorage, now, app, tasks, steps>>

StoreExpired ==
    \E session \in StoreSessions \cup {Null} :
        /\ last' = StoreCall("isSessionExpired", session,
                             isSessionExpired(session, now), NoItem,
                             "none")
        /\ UNCHANGED <<config, hasStorage, storage, now, app, tasks, steps>>

\* The page is loaded again, under the same environment or another.
StoreReload ==
    \E env \in StoreEnvs :
        /\ config' = envConfig(env)
        /\ last' = StoreCall("reload", Null, Null, NoItem, "none")
        /\ UNCHANGED <<hasStorage, storage, now, app, tasks, steps>>

StoreTick ==
    /\ now < MaxTime
    /\ now' = now + 1
    /\ last' = StoreCall("tick", Null, Null, NoItem, "none")
    /\ UNCHANGED <<config, hasStorage, storage, app, tasks, steps>>

NextStore ==
    \/ StorePersist
    \/ StoreLoad
    \/ StoreExpired
    \/ StoreReload
    \/ StoreTick

SpecStore == InitStore /\ [][NextStore]_vars

(***************************************************************************)
(* SpecApi: the functions of api.ts called directly under every            *)
(* configuration.  `last` is the latest call: the function, the session    *)
(* token passed and whether it threw or sent a request.                    *)
(***************************************************************************)
ApiCall(op, class, token, call) ==
    [op |-> op, class |-> class, token |-> token, call |-> call]

ApiEnvs ==
    {Env(<<"u">>, p, pk, mk, slug) :
       p \in {"", "1"}, pk \in {"", "pk"}, mk \in {" ", "mk"},
       slug \in {"", " "}}

ApiTokens == {"", "t1"}

InitApi ==
    \E env \in ApiEnvs :
        /\ config = envConfig(env)
        /\ hasStorage = TRUE
        /\ storage = NoItem
        /\ now = 0
        /\ app = InitialApp(Null)
        /\ tasks = <<>>
        /\ last = ApiCall("none", "none", "", Threw(""))
        /\ steps = 0

CallFetchAppUserTotal ==
    /\ last' = ApiCall("fetchAppUserTotal", "total", "",
                       fetchAppUserTotal(config))
    /\ UNCHANGED <<config, hasStorage, storage, now, app, tasks, steps>>

CallRequestMagicLink ==
    \E email \in Emails :
        /\ last' = ApiCall("requestMagicLink", "public", "",
                           requestMagicLink(config, email))
        /\ UNCHANGED <<config, hasStorage, storage, now, app, tasks, steps>>

CallVerifyMagicToken ==
    \E code \in Codes :
        /\ last' = ApiCall("verifyMagicToken", "manage", "",
                           verifyMagicToken(config, code))
        /\ UNCHANGED <<config, hasStorage, storage, now, app, tasks, steps>>

CallFetchProfile ==
    \E tk \in ApiTokens :
        /\ last' = ApiCall("fetchProfile", "session", tk,
                           fetchProfile(config, tk))
        /\ UNCHANGED <<config, hasStorage, storage, now, app, tasks, steps>>

CallFetchTodos ==
    \E tk \in ApiTokens, page \in {0, 1, 2}, limit \in {0, 10} :
        /\ last' = ApiCall("fetchTodos", "session", tk,
                           fetchTodos(config, tk, page, limit))
        /\ UNCHANGED <<config, hasStorage, storage, now, app, tasks, steps>>

CallCreateTodo ==
    \E tk \in ApiTokens, title \in Titles :
        /\ last' = ApiCall("createTodo", "session", tk,
                           createTodo(config, tk,
                                      TodoPayload(title, <<>>, FALSE)))
        /\ UNCHANGED <<config, hasStorage, storage, now, app, tasks, steps>>

CallUpdateTodo ==
    \E tk \in ApiTokens, id \in Ids :
        /\ last' = ApiCall("updateTodo", "session", tk,
                           updateTodo(config, tk, id,
                                      TodoPayload(<<"T">>, <<>>, TRUE)))
        /\ UNCHANGED <<config, hasStorage, storage, now, app, tasks, steps>>

CallDeleteTodo ==
    \E tk \in ApiTokens, id \in Ids :
        /\ last' = ApiCall("deleteTodo", "session", tk,
                           deleteTodo(config, tk, id))
        /\ UNCHANGED <<config, hasStorage, storage, now, app, tasks, steps>>

\* The responses fetch may resolve with: successful or not, with or
\* without a status text, and with a body that is empty, not JSON, the JSON
\* null, or a JSON object with or without an error and a message field,
\* each of them empty or not.
HttpResponses ==
    LET objects == UNION {[fields -> {"", "e", "m"}] :
                            fields \in SUBSET {"error", "message"}}
        texts == {NoItem, Garbage, JsonStringify(Null)}
                   \cup {JsonStringify(object) : object \in objects}
    IN  {[ok |-> ok, status |-> IF ok THEN 200 ELSE 500,
          statusText |-> statusText, text |-> text] :
           ok \in BOOLEAN, statusText \in {"", "Bad"}, text \in texts}

\* jsonRequest after fetch, taking the message field before the error
\* field.
jsonResponseMessageFirst(response) ==
    LET text == response.text
        data == IF text = NoItem THEN Null
                ELSE IF text.shape = "json" THEN JsonParse(text)
                ELSE text
        isObject == data = Null \/ "shape" \notin DOMAIN data
        field(name) == IF isObject /\ data # Null /\ name \in DOMAIN data
                       THEN data[name] ELSE ""
        message == IF field("message") # "" THEN field("message")
                   ELSE IF field("error") # "" THEN field("error")
                   ELSE IF response.statusText # "" THEN response.statusText
                   ELSE "Request failed"
    IN  IF ~response.ok
        THEN [threw |-> TRUE, message |-> message, request |-> Null,
              status |-> response.status, details |-> data,
              response |-> response]
        ELSE [threw |-> FALSE, message |-> "", request |-> Null,
              value |-> IF data = Null THEN [name \in {} |-> ""] ELSE data,
              response |-> response]

\* jsonRequest after fetch: the body read as text and parsed, the ApiError
\* thrown for a response that is not ok, the value returned for one that
\* is.  A field the body lacks reads as undefined, which || skips as it
\* skips "".
jsonResponse(response) ==
    LET text == response.text
        data == IF text = NoItem THEN Null
                ELSE IF text.shape = "json" THEN JsonParse(text)
                ELSE text
        isObject == data = Null \/ "shape" \notin DOMAIN data
        field(name) == IF isObject /\ data # Null /\ name \in DOMAIN data
                       THEN data[name] ELSE ""
        message == IF field("error") # "" THEN field("error")
                   ELSE IF field("message") # "" THEN field("message")
                   ELSE IF response.statusText # "" THEN response.statusText
                   ELSE "Request failed"
    IN  IF ~response.ok
        THEN [threw |-> TRUE, message |-> message, request |-> Null,
              status |-> response.status, details |-> data,
              response |-> response]
        ELSE [threw |-> FALSE, message |-> "", request |-> Null,
              value |-> IF data = Null THEN [name \in {} |-> ""] ELSE data,
              response |-> response]

ReceiveResponse ==
    \E response \in HttpResponses :
        /\ last' = ApiCall("jsonRequest", "response", "",
                           jsonResponse(response))
        /\ UNCHANGED <<config, hasStorage, storage, now, app, tasks, steps>>

NextApi ==
    \/ ReceiveResponse
    \/ CallFetchAppUserTotal
    \/ CallRequestMagicLink
    \/ CallVerifyMagicToken
    \/ CallFetchProfile
    \/ CallFetchTodos
    \/ CallCreateTodo
    \/ CallUpdateTodo
    \/ CallDeleteTodo

SpecApi == InitApi /\ [][NextApi]_vars

(***************************************************************************)
(* The properties checked.                                                 *)
(***************************************************************************)
\* expiresAt parses to a time strictly greater than t.
ExpiresInFuture(session, t) ==
    session.expiresAt.kind = "time" /\ session.expiresAt.t > t

\* The session loadStoredSession returns in the current state.
Loadable == loadStoredSession(config, hasStorage, storage).session

\* The session guard fails for the in-memory session: it is absent, no
\* persisted session is loadable, or it does not expire in the future.
GuardFails ==
    IF app.session = Null THEN TRUE
    ELSE Loadable = Null \/ ~ExpiresInFuture(app.session, now)

\* The operator triggers one of the gated actions.
GatedTrigger ==
    \/ ClickRefresh
    \/ ClickPage
    \/ SelectPageSize
    \/ ClickCreate
    \/ ClickSave
    \/ ClickToggle
    \/ ClickDelete

GatedOps ==
    {"refreshTodos", "handlePageChange", "handlePageSizeChange",
     "handleCreateTodo", "handleUpdateTodo", "handleToggleTodo",
     "handleDeleteTodo"}

RecordAwaits == {"list", "create", "update", "delete"}

\* The number of flows in ts that await the answer to a request of kind a.
InFlight(ts, a) == Cardinality({j \in 1 .. Len(ts) : ts[j].await = a})

\* The step sends no list, create, update or delete request: no more of
\* each kind are in flight after it than before it.
NoRecordsRequestSent ==
    \A a \in RecordAwaits : InFlight(tasks', a) <= InFlight(tasks, a)

\* C1: when list, create, update, toggle or delete is triggered in a state
\* where the session guard fails, the step sends no request: the flows in
\* flight, and with them the requests sent, are unchanged.  And in every
\* step in which ensureActiveSession rejects the session it is given (also
\* the one a flow captured, when refreshTodos is called after a response),
\* no list, create, update or delete request is sent.
C1_GuardFailureSendsNothing ==
    [][/\ (GuardFails /\ GatedTrigger) => tasks' = tasks
       /\ last'.guard \in {"missing", "inactive", "expired"}
            => NoRecordsRequestSent]_vars

\* C1 witness: a gated action was triggered with an expired session and was
\* denied.
C1_DeniedTrigger ==
    /\ last.op \in GatedOps
    /\ last.guard = "expired"
    /\ last.outcome = "denied"

\* The step just taken called the guard on a present session and the guard
\* rejected it.
GuardRejected == last.guard \in {"inactive", "expired"}

AccessErrors ==
    {"Access not active. Request access.",
     "Access expired. Request access again."}

\* C2: after a step in which the guard rejected a present session, the
\* session, profile, records, pagination metadata and drafts are cleared,
\* the page is 1, nothing is persisted and the error shown is the
\* access-expired or access-not-active one.
C2_RejectionSignsOut ==
    GuardRejected =>
        /\ app.session = Null
        /\ app.profile = Null
        /\ app.todos = <<>>
        /\ app.todoMeta = Null
        /\ app.todoDrafts = {}
        /\ app.todoPage = 1
        /\ storage = NoItem
        /\ app.error \in AccessErrors

\* C2 witness: a flow that was in flight when the persisted copy went away
\* came back, its guard rejected the session, and the operator is signed
\* out.
C2_RejectedInFlow ==
    /\ last.op \in {"ProfileResponse", "CreateResponse", "DeleteResponse"}
    /\ last.guard = "inactive"
    /\ app.status # ""

\* The guard applied in the current state to session s accepts it.
GuardAccepts(s) == ensureActiveSession(Cur, s, "").verdict = "ok"

\* The sessions the guard is given: the in-memory one, and the ones the
\* flows in flight captured.
GuardArgs == {app.session} \cup {tasks[i].session : i \in 1 .. Len(tasks)}

\* C3 as stated: the guard accepts the in-memory session iff it is present,
\* the store returns a persisted copy with the same token, and it expires
\* in the future.
C3_AcceptsIffSameSessionStored ==
    GuardAccepts(app.session) <=>
        IF app.session = Null \/ Loadable = Null THEN FALSE
        ELSE /\ Loadable.token = app.session.token
             /\ ExpiresInFuture(app.session, now)

\* C3 amended: the guard accepts a session iff it is present, the store
\* returns some persisted session (which then carries a token, its own or
\* another's), and the session given expires in the future.
C3_AcceptsIffSomeSessionStored ==
    \A s \in GuardArgs :
        GuardAccepts(s) <=>
            IF s = Null \/ Loadable = Null THEN FALSE
            ELSE ExpiresInFuture(s, now)

\* C3 witness: the guard accepted the in-memory session in the step just
\* taken, and the store holds a session with another token.
C3_AcceptedBesideOtherToken ==
    /\ last.guard = "ok"
    /\ app.session # Null
    /\ GuardAccepts(app.session)
    /\ Loadable # Null
    /\ Loadable.token # app.session.token

\* C4: isSessionExpired(session) is true iff expiresAt is absent (or there
\* is no session), unparseable, or at most now; so expiresAt = now is
\* expired and expiresAt = now + 1 is not.
C4_ExpiryBoundary ==
    last.op = "isSessionExpired" =>
        (last.result <=>
            IF last.session = Null THEN TRUE
            ELSE \/ last.session.expiresAt.kind \in {"absent", "unparseable"}
                 \/ last.session.expiresAt.t <= now)

\* C4 witness: the session asked about expires exactly now, now being
\* after the start, and is reported expired.
C4_ExpiresExactlyNow ==
    /\ last.op = "isSessionExpired"
    /\ last.session # Null
    /\ last.session.expiresAt.kind = "time"
    /\ last.session.expiresAt.t = now
    /\ now > 0
    /\ last.result = TRUE

\* C5: the in-memory session goes from absent to present only in a step
\* that handles a successful verify response, and a step of requestCode
\* (the click, or its response, ok or failed) changes neither the in-memory
\* session nor the persisted one.
C5_SessionOnlyFromVerify ==
    [][/\ (app.session = Null /\ app'.session # Null) =>
            \E i \in 1 .. Len(tasks) : \E x \in ServerSessions :
                VerifyResponse(i, Ok(x))
       /\ (\/ ClickRequest
           \/ \E i \in 1 .. Len(tasks) :
                \E res \in Answers(i) \cup Failures : LoginResponse(i, res))
            => (app'.session = app.session /\ storage' = storage)]_vars

\* C5 witness: a verify response has just created the session while a
\* requestCode call is still in flight.
C5_VerifiedDuringRequest ==
    /\ last.op = "VerifyResponse"
    /\ last.outcome = "ok"
    /\ app.session # Null
    /\ app.requesting

\* C6: the Sign out step sends no request and leaves session and profile
\* absent, no records, no pagination metadata, page 1, page size 10, no
\* drafts, no active edit and nothing persisted; and while the button is
\* shown the step can always be taken.
C6_SignOutIsLocalAndTotal ==
    /\ []((app.session # Null /\ steps < MaxSteps) => ENABLED ClickSignOut)
    /\ [][ClickSignOut =>
            /\ tasks' = tasks
            /\ app'.session = Null
            /\ app'.profile = Null
            /\ app'.todos = <<>>
            /\ app'.todoMeta = Null
            /\ app'.todoPage = 1
            /\ app'.todoPageSize = 10
            /\ app'.todoDrafts = {}
            /\ app'.activeEditId = ""
            /\ storage' = NoItem]_vars

\* C6 witness: the operator has just signed out with a flow still in
\* flight.
C6_SignedOutMidFlight ==
    /\ last.op = "clearSession"
    /\ Len(tasks) > 0
    /\ app.session = Null
    /\ app.status = "Signed out."

\* C7: every request in flight of requestCode carries the public key, and
\* of verifyCode the management key, as API key and no Authorization;
\* every request of fetchProfile, list, create, update and delete carries
\* the token of the session its flow holds as Authorization and no API key.
C7_CredentialSeparation ==
    \A i \in 1 .. Len(tasks) :
        LET r == tasks[i].request
        IN  CASE tasks[i].await = "login" ->
                   /\ r.path.route = "/api/app-users/login"
                   /\ r.xApiKey = config.publicProjectKey
                   /\ r.xApiKey # ""
                   /\ r.authorization = ""
              [] tasks[i].await = "verify" ->
                   /\ r.path.route = "/api/app-users/verify"
                   /\ r.xApiKey = config.manageProjectKey
                   /\ r.xApiKey # ""
                   /\ r.authorization = ""
              [] tasks[i].await = "profile" ->
                   /\ r.path.route = "/api/app-users/me"
                   /\ r.authorization = tasks[i].session.token
                   /\ r.authorization # ""
                   /\ r.xApiKey = ""
              [] tasks[i].await \in RecordAwaits ->
                   /\ r.path.slug = config.collectionSlug
                   /\ r.authorization = tasks[i].session.token
                   /\ r.authorization # ""
                   /\ r.xApiKey = ""
              [] OTHER -> FALSE

\* C7 witness: a verify request and a records request are in flight
\* together.
C7_BothClassesInFlight ==
    \E i, j \in 1 .. Len(tasks) :
        /\ tasks[i].await = "verify"
        /\ tasks[j].await \in RecordAwaits

\* C8: requestMagicLink without public key or project id, verifyMagicToken
\* without management key or project id, fetchAppUserTotal without project
\* id or without both keys, and every session-class call with an empty
\* token throw and send no request.
C8_FailFast ==
    /\ (/\ last.op = "requestMagicLink"
        /\ (config.publicProjectKey = "" \/ config.projectId = NoProject))
         => (last.call.threw /\ last.call.request = Null)
    /\ (/\ last.op = "verifyMagicToken"
        /\ (config.manageProjectKey = "" \/ config.projectId = NoProject))
         => (last.call.threw /\ last.call.request = Null)
    /\ (/\ last.op = "fetchAppUserTotal"
        /\ \/ config.projectId = NoProject
           \/ (config.publicProjectKey = "" /\ config.manageProjectKey = ""))
         => (last.call.threw /\ last.call.request = Null)
    /\ (last.class = "session" /\ last.token = "")
         => (last.call.threw /\ last.call.request = Null)

\* C8 witness: verifyMagicToken was called with a management key but no
\* project id, and threw.
C8_VerifyWithoutProject ==
    /\ last.op = "verifyMagicToken"
    /\ config.manageProjectKey # ""
    /\ config.projectId = NoProject
    /\ last.call.threw

\* A load that directly followed a save, under the same configuration.
LoadAfterSave ==
    last.op = "loadStoredSession" /\ last.prev = "persistSession"

\* C9 as stated: for every session (with a token) and every configuration,
\* where localStorage exists, a load right after a save returns the session
\* saved and leaves the persisted value.
C9_RoundTrip ==
    (LoadAfterSave /\ hasStorage /\ last.session.token # "") =>
        /\ last.result = last.session
        /\ storage = last.before
        /\ storage # NoItem

\* C9 amended: where localStorage exists, the session has a token, the
\* configuration's normalized base URL is not empty and the session's
\* project id does not conflict with the configuration's, a load right
\* after a save returns the session saved and leaves the persisted value.
C9_RoundTripWhereStorable ==
    (/\ LoadAfterSave
     /\ hasStorage
     /\ last.session.token # ""
     /\ normalizeBaseUrl(config.baseUrl) # <<>>
     /\ \/ config.projectId = NoProject
        \/ last.session.projectId = NoProject
        \/ config.projectId = last.session.projectId)
      => /\ last.result = last.session
         /\ storage = last.before
         /\ storage # NoItem

\* C9 witness: a session of the configured project was saved, then loaded
\* back.
C9_LoadedBack ==
    /\ LoadAfterSave
    /\ last.result # Null
    /\ last.result = last.session
    /\ last.session.projectId = config.projectId
    /\ config.projectId # NoProject

\* The item a load found holds a stored session (session, base URL and
\* project id).
FoundStored ==
    /\ last.op = "loadStoredSession"
    /\ last.before.shape = "json"
    /\ "session" \in DOMAIN last.before.value

\* The stored value is stale under the current configuration.
Stale(stored) ==
    \/ stored.baseUrl # normalizeBaseUrl(config.baseUrl)
    \/ /\ config.projectId # NoProject
       /\ stored.projectId # NoProject
       /\ config.projectId # stored.projectId

\* C10 as stated: a load that finds a stale stored value returns absent and
\* removes it; a load that finds one that is not stale returns its session
\* and leaves storage unchanged.
C10_StaleDetection ==
    FoundStored =>
        IF Stale(last.before.value)
        THEN last.result = Null /\ storage = NoItem
        ELSE last.result = last.before.value.session
             /\ storage = last.before

\* C10 amended: the same, for a stored value whose session has a token and
\* whose base URL is not empty.
C10_StaleDetectionOfTokenSessions ==
    (/\ FoundStored
     /\ last.before.value.session.token # ""
     /\ last.before.value.baseUrl # <<>>)
      => IF Stale(last.before.value)
         THEN last.result = Null /\ storage = NoItem
         ELSE last.result = last.before.value.session
              /\ storage = last.before

\* C10 witness: a load found a session stored under another project id and
\* the same base URL, returned absent and removed it.
C10_PurgedOtherProject ==
    /\ FoundStored
    /\ last.before.value.session.token # ""
    /\ last.before.value.baseUrl = normalizeBaseUrl(config.baseUrl)
    /\ Stale(last.before.value)
    /\ last.result = Null
    /\ storage = NoItem

\* A load that found the bare session object the earlier version stored.
FoundLegacy ==
    /\ last.op = "loadStoredSession"
    /\ last.before.shape = "json"
    /\ "session" \notin DOMAIN last.before.value
    /\ last.before.value.token # ""

\* C11 as stated: a load that finds a bare session object with a token
\* returns that session and leaves the persisted value in place.
C11_LegacyAccepted ==
    (FoundLegacy /\ hasStorage) =>
        /\ last.result = last.before.value
        /\ storage = last.before

\* A session the service returns that the guard's tests on the session
\* itself accept: it has a token and expires in the future.
WellFormed(s) == s.token # "" /\ ExpiresInFuture(s, now)

\* C12 as stated: without localStorage the store's calls change nothing and
\* the session lives in memory: the step that handles a successful verify
\* response carrying a well-formed session leaves the operator signed in
\* with that session, and a gated action triggered with a well-formed
\* in-memory session is not denied.
C12_InMemorySession ==
    [][~hasStorage =>
        /\ storage' = storage
        /\ \A i \in 1 .. Len(tasks) : \A x \in ServerSessions :
             (WellFormed(x) /\ VerifyResponse(i, Ok(x)))
                => app'.session = x
        /\ (/\ GatedTrigger
            /\ app.session # Null
            /\ WellFormed(app.session))
             => last'.outcome # "denied"]_vars

\* C13 as stated: after the step that handles a failed fetchProfile, of the
\* session effect or of the verify flow, the session, the profile, the
\* records and the persisted session are all absent.
C13_ProfileFailureSignsOut ==
    (last.op = "ProfileResponse" /\ last.outcome = "failed") =>
        /\ app.session = Null
        /\ app.profile = Null
        /\ app.todos = <<>>
        /\ storage = NoItem

\* C14 as stated: after the step that handles a failed list, create, update,
\* toggle or delete call, the operator is signed out: session, profile,
\* records, pagination metadata and drafts are cleared and nothing is
\* persisted.
C14_RejectedCallSignsOut ==
    (/\ last.op \in {"ListResponse", "CreateResponse", "UpdateResponse",
                     "DeleteResponse"}
     /\ last.outcome = "failed") =>
        /\ app.session = Null
        /\ app.profile = Null
        /\ app.todos = <<>>
        /\ app.todoMeta = Null
        /\ app.todoDrafts = {}
        /\ storage = NoItem

\* C15 as stated: a step that sends a fetchProfile request, from the session
\* effect or from the verify flow, is one in which the guard accepted the
\* session whose token the request carries (for the verify flow, the guard
\* applied to the session just returned and persisted).
C15_ProfileSentAfterGuard ==
    [][\A j \in 1 .. Len(tasks') :
         (/\ tasks'[j].await = "profile"
          /\ \A k \in 1 .. Len(tasks) : tasks[k] # tasks'[j])
            => last'.guard = "ok"]_vars

\* C16 as stated: handleRequestLink with an email that is empty after
\* trimming sends no request and sets an error.
C16_EmptyEmailRejected ==
    [][\A email \in Emails :
         (Trim(email) = <<>> /\ handleRequestLink(email))
            => (tasks' = tasks /\ app'.error # "")]_vars

\* C17: handleRequestLink and handleVerifyToken called while the
\* configuration is incomplete, and handleVerifyToken called with a code
\* that is empty after trimming, send no request, leave the in-memory
\* session and the persisted one as they were, and set an error.
C17_NotReadyOrNoCodeSendsNothing ==
    [][\A email \in Emails : \A code \in Codes :
         (\/ ~configReady /\ handleRequestLink(email)
          \/ ~configReady /\ handleVerifyToken(code)
          \/ Trim(code) = <<>> /\ handleVerifyToken(code))
            => /\ tasks' = tasks
               /\ app'.session = app.session
               /\ storage' = storage
               /\ app'.error # ""]_vars

\* C17 witness: handleVerifyToken was called under an incomplete
\* configuration while a stored session was loaded, and returned at once.
C17_VerifyCalledNotReady ==
    /\ ~configReady
    /\ last.op = "handleVerifyToken"
    /\ last.outcome = "notReady"
    /\ app.session # Null
    /\ app.error = "System configuration is incomplete."

\* Text with no blank at either end.
NoBlankEnds(text) ==
    text = <<>> \/ (text[1] # " " /\ text[Len(text)] # " ")

\* The records, the pagination state and the drafts are as they were.
RecordsStateUnchanged ==
    /\ app'.todos = app.todos
    /\ app'.todoMeta = app.todoMeta
    /\ app'.todoPage = app.todoPage
    /\ app'.todoPageSize = app.todoPageSize
    /\ app'.todoDrafts = app.todoDrafts

\* The create or update request the step sent, if it sent one, carries a
\* title that is not empty and a title and notes without blanks at their
\* ends.
SentBodyTrimmed ==
    last'.outcome = "sent" =>
        LET data == tasks'[last'.slot].request.body.data
        IN  /\ tasks'[last'.slot].await \in {"create", "update"}
            /\ data.title # <<>>
            /\ NoBlankEnds(data.title)
            /\ NoBlankEnds(data.notes)

\* handleCreateTodo or handleUpdateTodo is called with a title that is empty
\* after trimming or, for update, for a record that has no draft.
CalledWithoutTitle ==
    /\ last'.op \in {"handleCreateTodo", "handleUpdateTodo"}
    /\ \E id \in Ids, title \in Titles, notes \in Notes :
         \/ Trim(title) = <<>> /\ handleCreateTodo(title, notes)
         \/ /\ Trim(title) = <<>> \/ id \notin app.todoDrafts
            /\ handleUpdateTodo(id, title, notes, FALSE)

\* handleCreateTodo or handleUpdateTodo is called.
CalledCreateOrUpdate ==
    /\ last'.op \in {"handleCreateTodo", "handleUpdateTodo"}
    /\ \E id \in Ids, title \in Titles, notes \in Notes :
         \/ handleCreateTodo(title, notes)
         \/ handleUpdateTodo(id, title, notes, FALSE)

\* C18 as stated: create or update called with an empty trimmed title, or
\* update without a draft, sends no request and leaves the records, the
\* pagination state and the drafts unchanged; a request that create or
\* update sends carries title and notes trimmed.
C18_NoTitleChangesNothing ==
    [][/\ CalledWithoutTitle => (tasks' = tasks /\ RecordsStateUnchanged)
       /\ CalledCreateOrUpdate => SentBodyTrimmed]_vars

\* C18 amended: the same, where the records, the pagination state and the
\* drafts are unchanged when the session guard accepts the in-memory
\* session (the guard runs before the title is tested, and signs out when
\* it rejects).
C18_NoTitleSendsNothing ==
    [][/\ CalledWithoutTitle =>
            /\ tasks' = tasks
            /\ GuardAccepts(app.session) => RecordsStateUnchanged
       /\ CalledCreateOrUpdate => SentBodyTrimmed]_vars

\* C18 witness: with a valid session and a draft open, update was called
\* with a blank title and was rejected.
C18_BlankTitleRejected ==
    /\ last.op = "handleUpdateTodo"
    /\ last.outcome = "rejected"
    /\ app.todoDrafts # {}
    /\ app.session # Null
    /\ app.error = "Enter a record title before saving."

\* x clamped into [lo, hi], and x raised to at least lo.
Clamp(x, lo, hi) == IF x < lo THEN lo ELSE IF x > hi THEN hi ELSE x
AtLeast(x, lo) == IF x < lo THEN lo ELSE x

\* The list requests in flight; each flow holds the page and the page size
\* refreshTodos was called with.
ListsInFlight == {j \in 1 .. Len(tasks) : tasks[j].await = "list"}

\* C19 as stated: every list request carries the page size asked for
\* clamped into [1, 100] (0 gives 1, 500 gives 100) and the page asked for
\* raised to at least 1.
C19_ClampAsStated ==
    \A j \in ListsInFlight :
        /\ tasks[j].request.path.limit = Clamp(tasks[j].limit, 1, 100)
        /\ tasks[j].request.path.page = AtLeast(tasks[j].page, 1)

\* C19 amended: every list request carries a page size in [1, 100] and a
\* page of at least 1: the page asked for raised to at least 1, and the
\* page size asked for clamped into [1, 100], except that a page size of 0
\* passed to refreshTodos gives 10.  A page size asked for through
\* handlePageSizeChange is clamped into [1, 100] before that, so that there
\* 0 gives 1 and 500 gives 100, for the request and for todoPageSize.
C19_EffectivePageAndSize ==
    /\ [](\A j \in ListsInFlight :
            /\ tasks[j].request.path.limit \in 1 .. 100
            /\ tasks[j].request.path.page >= 1
            /\ tasks[j].request.path.limit =
                 IF tasks[j].limit = 0 THEN 10
                 ELSE Clamp(tasks[j].limit, 1, 100)
            /\ tasks[j].request.path.page = AtLeast(tasks[j].page, 1))
    /\ [][\A nextLimit \in RequestedSizes :
            (/\ last'.op = "handlePageSizeChange"
             /\ handlePageSizeChange(nextLimit))
               => (last'.outcome = "sent" =>
                     /\ app'.todoPageSize = Clamp(nextLimit, 1, 100)
                     /\ tasks'[last'.slot].await = "list"
                     /\ tasks'[last'.slot].request.path.limit =
                          Clamp(nextLimit, 1, 100)
                     /\ tasks'[last'.slot].request.path.page = 1)]_vars

\* C19 witness: a page size below 1 was asked for through
\* handlePageSizeChange and the list request in flight asks for 1 record.
C19_SizeRaisedToOne ==
    /\ last.op = "handlePageSizeChange"
    /\ last.outcome = "sent"
    /\ app.todoPageSize = 1
    /\ \E j \in ListsInFlight : tasks[j].request.path.limit = 1

\* The page the claim has listed after a delete: the one before the loaded
\* page p when p > 1 and the page holds one record, and p otherwise (1 when
\* no page is loaded).
PageAfterDelete ==
    IF app.todoMeta = Null THEN 1
    ELSE IF app.todoMeta.page > 1 /\ Len(app.todos) = 1
    THEN app.todoMeta.page - 1
    ELSE app.todoMeta.page

\* The step sends the delete request of a confirmed delete.
DeleteTriggered ==
    last'.op = "handleDeleteTodo" /\ last'.outcome = "sent"

\* The step handles the successful answer to a delete request.
DeleteSucceeded ==
    last'.op = "DeleteResponse" /\ last'.outcome = "ok"

\* C20 as stated: the flow of a delete holds the page computed from the
\* page loaded when the delete was triggered (p - 1 when p > 1 and the page
\* held only that record, p otherwise), and the step that handles the
\* successful answer sends exactly one list request, for that page.
C20_OneListAfterDelete ==
    [][/\ DeleteTriggered => tasks'[last'.slot].page = PageAfterDelete
       /\ DeleteSucceeded =>
            /\ InFlight(tasks', "list") = InFlight(tasks, "list") + 1
            /\ tasks'[last'.slot].await = "list"
            /\ tasks'[last'.slot].request.path.page =
                 tasks[last'.slot].page]_vars

\* C20 amended: the same where the session guard accepts the session the
\* flow holds when the answer is handled; where it rejects it (the session
\* expired or the persisted copy went away while the delete was in flight)
\* no list request is sent and the operator is signed out.
C20_OneListAfterDeleteIfGuardAccepts ==
    [][/\ DeleteTriggered => tasks'[last'.slot].page = PageAfterDelete
       /\ DeleteSucceeded =>
            IF last'.guard = "ok"
            THEN /\ InFlight(tasks', "list") = InFlight(tasks, "list") + 1
                 /\ tasks'[last'.slot].await = "list"
                 /\ tasks'[last'.slot].request.path.page =
                      tasks[last'.slot].page
            ELSE /\ InFlight(tasks', "list") = InFlight(tasks, "list")
                 /\ app'.session = Null]_vars

\* C20 witness: the last page of the list held one record, it was deleted,
\* and the list request in flight asks for the page before it.
C20_PreviousPageListed ==
    /\ last.op = "DeleteResponse"
    /\ last.guard = "ok"
    /\ app.todoMeta # Null
    /\ app.todoMeta.page = LoadedPageCount
    /\ app.todoMeta.pages = LoadedPageCount
    /\ Len(app.todos) = 1
    /\ \E j \in ListsInFlight :
         /\ tasks[j].flow = "delete"
         /\ tasks[j].request.path.page = LoadedPageCount - 1

\* The step handles the successful answer to a create request.
CreateSucceeded ==
    last'.op = "CreateResponse" /\ last'.outcome = "ok"

\* The step handles the successful answer to the list request that a create
\* flow sent.
CreateListed ==
    /\ last'.op = "ListResponse" /\ last'.outcome = "ok"
    /\ tasks[last'.slot].flow = "create"

\* The records and the page state are those of a list response for page 1:
\* a page the service sends, with the meta of the response.
ReplacedByListOfPageOne ==
    /\ app'.todos \in TodoPages
    /\ app'.todoMeta # Null
    /\ app'.todoMeta.page = 1
    /\ app'.todoMeta \in
         ServerMetas(1, tasks[last'.slot].request.path.limit, app'.todos)
           \cup {FetchTodosResult([data |-> app'.todos, meta |-> Null], 1,
                                  tasks[last'.slot].request.path.limit).meta}
    /\ app'.todoPage = app'.todoMeta.page
    /\ app'.todoPageSize = app'.todoMeta.limit

\* C21 as stated: the step that handles the successful answer to a create
\* sends one list request, for page 1, and leaves the local records as they
\* are (the created record is not spliced in); the step that handles the
\* answer to that list request replaces the records and the page state with
\* the response.
C21_RelistAfterCreate ==
    [][/\ CreateSucceeded =>
            /\ InFlight(tasks', "list") = InFlight(tasks, "list") + 1
            /\ tasks'[last'.slot].await = "list"
            /\ tasks'[last'.slot].request.path.page = 1
            /\ app'.todos = app.todos
       /\ CreateListed => ReplacedByListOfPageOne]_vars

\* C21 amended: the same where the session guard accepts the session the
\* create flow holds when the answer is handled; where it rejects it no list
\* request is sent, the operator is signed out and the local records are
\* emptied.  In neither case is a record added to the local records.
C21_RelistAfterCreateIfGuardAccepts ==
    [][/\ CreateSucceeded =>
            IF last'.guard = "ok"
            THEN /\ InFlight(tasks', "list") = InFlight(tasks, "list") + 1
                 /\ tasks'[last'.slot].await = "list"
                 /\ tasks'[last'.slot].request.path.page = 1
                 /\ app'.todos = app.todos
            ELSE /\ InFlight(tasks', "list") = InFlight(tasks, "list")
                 /\ app'.session = Null
                 /\ app'.todos = <<>>
       /\ CreateListed => ReplacedByListOfPageOne]_vars

\* C21 witness: a record was created, and the records shown are those of
\* the list response for page 1 that followed.
C21_ShowsPageOneAfterCreate ==
    /\ last.op = "ListResponse"
    /\ last.outcome = "ok"
    /\ app.status = "Record created."
    /\ ~app.creatingTodo
    /\ app.todos \in TodoPages \ {<<>>}
    /\ app.todoMeta.page = 1
    /\ tasks = <<>>

\* The step handles the successful answer to an update request (of
\* handleUpdateTodo or of handleToggleTodo).
UpdateSucceeded ==
    last'.op = "UpdateResponse" /\ last'.outcome = "ok"

\* The record the service returns for the update request of the flow in
\* slot i.
ReturnedRecord(i) == Todo(tasks[i].id, tasks[i].flag)

\* C22: the step that handles the successful answer to an update request
\* puts the returned record where the local record of the same id is, leaves
\* every other record, the length and the order of the list and the
\* pagination state as they were, and sends no list request.
C22_UpdateReplacesInPlace ==
    [][UpdateSucceeded =>
         LET i == last'.slot
         IN  /\ Len(app'.todos) = Len(app.todos)
             /\ \A k \in 1 .. Len(app.todos) :
                  /\ app.todos[k].id = tasks[i].id
                       => app'.todos[k] = ReturnedRecord(i)
                  /\ app.todos[k].id # tasks[i].id
                       => app'.todos[k] = app.todos[k]
                  /\ app'.todos[k].id = app.todos[k].id
             /\ app'.todoMeta = app.todoMeta
             /\ app'.todoPage = app.todoPage
             /\ app'.todoPageSize = app.todoPageSize
             /\ InFlight(tasks', "list") = InFlight(tasks, "list")
             /\ tasks' = DropTask(tasks, i)]_vars

\* C22 witness: the first of two records was edited and saved as completed;
\* the returned record stands first, the other record second, on the page
\* that was loaded.
C22_FirstOfTwoReplaced ==
    /\ last.op = "UpdateResponse"
    /\ last.outcome = "ok"
    /\ app.status = "Record updated."
    /\ app.todos = <<Todo("r1", TRUE), Todo("r2", TRUE)>>
    /\ app.todoMeta # Null
    /\ app.todoPage = app.todoMeta.page

\* The fields a record holds besides its id.
DataFields(todo) == DOMAIN todo \ {"id"}

\* The step sends the update request of a toggle: handleToggleTodo was
\* called and its request went out.
ToggleSent ==
    last'.op = "handleToggleTodo" /\ last'.outcome = "sent"

\* C23: the request a toggle sends for a record carries the negation of the
\* record's completed flag and, for every other field of the record,
\* extension fields included, the record's current value.
C23_ToggleKeepsOtherFields ==
    [][ToggleSent =>
         LET task == tasks'[last'.slot]
             body == task.request.body.data
         IN  \A k \in 1 .. Len(app.todos) :
               app.todos[k].id = task.id =>
                 /\ body.completed = ~app.todos[k].completed
                 /\ \A f \in DataFields(app.todos[k]) \ {"completed"} :
                      /\ f \in DOMAIN body
                      /\ body[f] = app.todos[k][f]]_vars

\* The handlers that change a record, and the steps that handle the answers
\* to their requests.
MutationHandlers ==
    {"handleCreateTodo", "handleUpdateTodo", "handleToggleTodo",
     "handleDeleteTodo"}
MutationResponses == {"CreateResponse", "UpdateResponse", "DeleteResponse"}

\* The step starts a create, update, toggle or delete whose session the
\* guard accepts: it sends the request, or the request fails before it is
\* sent.
MutationStarted ==
    /\ last'.op \in MutationHandlers
    /\ last'.outcome \in {"sent", "threw"}

\* The step handles the failure of a create, update, toggle or delete
\* request.
MutationFailed ==
    /\ last'.op \in MutationResponses
    /\ last'.outcome = "failed"

\* C24: neither the step that starts a create, update, toggle or delete nor
\* the step that handles the failure of its request changes the local
\* records, the pagination metadata (the total included), the page or the
\* page size, and the step that handles the failure sends no list request.
C24_FailedMutationChangesNothing ==
    [][/\ MutationStarted =>
            /\ RecordsStateUnchanged
            /\ InFlight(tasks', "list") = InFlight(tasks, "list")
       /\ MutationFailed =>
            /\ RecordsStateUnchanged
            /\ InFlight(tasks', "list") = InFlight(tasks, "list")
            /\ tasks' = DropTask(tasks, last'.slot)]_vars

\* C24 witness: on a page after the first, holding records, a create request
\* failed and the failure is shown over the page as it was.
C24_CreateFailedOnLaterPage ==
    /\ last.op = "CreateResponse"
    /\ last.outcome = "failed"
    /\ app.error = "denied"
    /\ app.todos # <<>>
    /\ app.todoMeta # Null
    /\ app.todoMeta.page > 1
    /\ app.todoPage = app.todoMeta.page

\* The step completes a user action: a handler returns without a request in
\* flight (a delete the operator did not confirm is no action), or the
\* answer that ends a flow a handler started is handled.
ActionCompleted ==
    \/ /\ last'.op \in {"handleRequestLink", "handleVerifyToken",
                        "refreshTodos", "handlePageChange",
                        "handlePageSizeChange", "handleCreateTodo",
                        "handleUpdateTodo", "handleToggleTodo",
                        "handleDeleteTodo", "clearSession"}
       /\ last'.outcome \notin {"sent", "cancelled"}
    \/ /\ last'.op \in {"LoginResponse", "VerifyResponse", "ProfileResponse",
                        "ListResponse", "CreateResponse", "UpdateResponse",
                        "DeleteResponse"}
       /\ Len(tasks') < Len(tasks)
       /\ tasks[last'.slot].flow # "effect"

\* C25: when a user action has completed, exactly one of the success notice
\* (status) and the error notice (error) is set.
C25_OneTerminalNotice ==
    [][ActionCompleted => ((app'.status # "") # (app'.error # ""))]_vars

\* No busy flag is set.
NoBusyFlag(a) ==
    /\ ~a.requesting
    /\ ~a.verifying
    /\ ~a.creatingTodo
    /\ ~a.loadingTodos
    /\ a.todoBusyId = ""

\* The step handles the answer that ends the flow in slot last'.slot.
FlowEnded ==
    /\ last'.op \in {"LoginResponse", "VerifyResponse", "ProfileResponse",
                     "ListResponse", "CreateResponse", "UpdateResponse",
                     "DeleteResponse"}
    /\ Len(tasks') < Len(tasks)

\* The busy flag of the flow `task` is clear in the App state a, and so is
\* loadingTodos if the flow was waiting for a list response.
OwnFlagClear(task, a) ==
    /\ task.flow = "login" => ~a.requesting
    /\ task.flow = "verify" => ~a.verifying
    /\ task.flow = "create" => ~a.creatingTodo
    /\ task.flow \in {"update", "toggle", "delete"} => a.todoBusyId = ""
    /\ task.await = "list" => ~a.loadingTodos

\* A handler returns at once: its guard or its validation rejects, or its
\* request fails before it is sent.
ReturnedEarly ==
    /\ last'.op \in {"handleRequestLink", "handleVerifyToken",
                     "refreshTodos", "handlePageChange",
                     "handlePageSizeChange", "handleCreateTodo",
                     "handleUpdateTodo", "handleToggleTodo",
                     "handleDeleteTodo"}
    /\ last'.outcome # "sent"

\* C26: whenever no flow is in flight, requesting, verifying, creatingTodo
\* and loadingTodos are false and todoBusyId is null; the step that ends a
\* flow, with success or failure, leaves that flow's flag clear; and a
\* handler that returns at once leaves no flag set that was not set before.
C26_BusyFlagsCleared ==
    /\ [](tasks = <<>> => NoBusyFlag(app))
    /\ [][/\ FlowEnded => OwnFlagClear(tasks[last'.slot], app')
          /\ ReturnedEarly =>
               /\ app'.requesting => app.requesting
               /\ app'.verifying => app.verifying
               /\ app'.creatingTodo => app.creatingTodo
               /\ app'.loadingTodos => app.loadingTodos
               /\ app'.todoBusyId \in {"", app.todoBusyId}]_vars

\* C26 witness: a toggle request failed, no flow is left in flight and no
\* busy flag is set.
C26_IdleAfterFailedToggle ==
    /\ last.op = "UpdateResponse"
    /\ last.outcome = "failed"
    /\ tasks = <<>>
    /\ app.error = "denied"
    /\ NoBusyFlag(app)

\* The flows of an update, toggle or delete in flight, from the start of
\* the action to the end of its refresh.
RecordFlows ==
    {j \in 1 .. Len(tasks) : tasks[j].flow \in {"update", "toggle", "delete"}}

\* C27: while a list request is in flight loadingTodos is true, and while an
\* update, toggle or delete on a record is in flight todoBusyId is that
\* record's id.
C27_BusyWhileInFlight ==
    /\ ListsInFlight # {} => app.loadingTodos
    /\ \A j \in RecordFlows : app.todoBusyId = tasks[j].id

\* C28: a step that starts an update, toggle or delete on a record finds no
\* update, toggle or delete on that record in flight.
C28_OneActionPerRecord ==
    [][(/\ last'.op \in {"handleUpdateTodo", "handleToggleTodo",
                         "handleDeleteTodo"}
        /\ last'.outcome = "sent")
         => \A j \in RecordFlows : tasks[j].id # tasks'[last'.slot].id]_vars

\* The items an environment leaves missing: the tenant id when the variable
\* is unset or does not give a project number (0 counts as none: the code
\* tests the id for truthiness), a key when its variable is unset or blank,
\* the collection name when its variable is blank (unset, it defaults).
MissingItems(env) ==
    (IF env.projectId \in {"1", "2"} THEN {} ELSE {"tenantId"})
    \cup (IF env.publicKey \in {"", " "} THEN {"publicKey"} ELSE {})
    \cup (IF env.manageKey \in {"", " "} THEN {"manageKey"} ELSE {})
    \cup (IF env.slug = " " THEN {"collectionName"} ELSE {})

\* The warning that reports an item.
WarningFor(item) ==
    CASE item = "tenantId" -> "Add a project ID"
      [] item = "publicKey" -> "Add the public project key"
      [] item = "manageKey" -> "Add the manage project key"
      [] item = "collectionName" -> "Set a collection slug"

\* The number of times a warning occurs in a list of warnings.
Occurrences(warnings, warning) ==
    Cardinality({k \in 1 .. Len(warnings) : warnings[k] = warning})

\* C29: under every environment, configReady is true iff no item is
\* missing, and the warnings hold one entry for each missing item, distinct
\* from the entries of the other items, and no other entry.
C29_WarningPerMissingItem ==
    \A env \in ApiEnvs :
        config = envConfig(env) =>
          /\ configReady <=> MissingItems(env) = {}
          /\ Len(configWarnings(config)) = Cardinality(MissingItems(env))
          /\ \A item \in MissingItems(env) :
               Occurrences(configWarnings(config), WarningFor(item)) = 1
          /\ \A item \in {"tenantId", "publicKey", "manageKey",
                          "collectionName"} \ MissingItems(env) :
               Occurrences(configWarnings(config), WarningFor(item)) = 0

\* C29 witness: only the management key is missing; configReady is false
\* and the one warning is the management key's, and a call that needs that
\* key has failed before sending.
C29_OnlyManageKeyMissing ==
    /\ config.projectId # NoProject
    /\ config.publicProjectKey # ""
    /\ config.manageProjectKey = ""
    /\ config.collectionSlug # ""
    /\ ~configReady
    /\ configWarnings(config) = <<"Add the manage project key">>
    /\ last.op = "verifyMagicToken"
    /\ last.call.threw

\* The in-memory and the persisted state of a world.
SessionState(w) == <<w.app, w.storage>>

\* C30: in every state, clearSession applied twice leaves the in-memory and
\* the persisted state that clearSession applied once leaves, and applied
\* to an empty store it leaves the store empty; a sign-out step leaves
\* exactly the state clearSession gives, on which a further clearSession
\* changes nothing.
C30_ClearIsIdempotent ==
    /\ [](/\ SessionState(clearSession(clearSession(Cur)))
               = SessionState(clearSession(Cur))
          /\ storage = NoItem => clearSession(Cur).storage = NoItem)
    /\ [][last'.op = "clearSession" =>
            /\ <<app', storage'>> = SessionState(clearSession(Cur))
            /\ SessionState(clearSession(World(app', storage', tasks')))
                 = <<app', storage'>>]_vars

\* C30 witness: the state a sign-out leaves, with no session and an empty
\* store, on which clearSession is applied once more.
C30_SignedOutOverEmptyStore ==
    /\ last.op = "clearSession"
    /\ hasStorage
    /\ storage = NoItem
    /\ app.session = Null
    /\ app.status = "Signed out."
    /\ app.todoPageSize = DEFAULT_PAGE_SIZE
    /\ SessionState(clearSession(Cur)) = SessionState(Cur)

\* The number of flows of a kind in flight.
FlowsInFlight(ts, flow) ==
    Cardinality({j \in 1 .. Len(ts) : ts[j].flow = flow})

\* C31: at most one request-code flow, one verify flow and one create flow
\* is in flight; while one is in flight its flag is set; and a step that
\* starts one finds its flag clear and none of its kind in flight.
C31_OneFlowOfAKind ==
    /\ [](/\ FlowsInFlight(tasks, "login") <= 1
          /\ FlowsInFlight(tasks, "verify") <= 1
          /\ FlowsInFlight(tasks, "create") <= 1
          /\ FlowsInFlight(tasks, "login") = 1 => app.requesting
          /\ FlowsInFlight(tasks, "verify") = 1 => app.verifying
          /\ FlowsInFlight(tasks, "create") = 1 => app.creatingTodo)
    /\ [][/\ (last'.op = "handleRequestLink" /\ last'.outcome = "sent")
               => (~app.requesting /\ FlowsInFlight(tasks, "login") = 0)
          /\ (last'.op = "handleVerifyToken" /\ last'.outcome = "sent")
               => (~app.verifying /\ FlowsInFlight(tasks, "verify") = 0)
          /\ (last'.op = "handleCreateTodo" /\ last'.outcome = "sent")
               => (~app.creatingTodo /\ FlowsInFlight(tasks, "create") = 0)
         ]_vars

\* C31 witness: a create is in flight with creatingTodo set, and another
\* action was started after it.
C31_CreateInFlightDuringOtherAction ==
    /\ app.creatingTodo
    /\ FlowsInFlight(tasks, "create") = 1
    /\ last.op \in {"handleVerifyToken", "refreshTodos",
                    "handlePageSizeChange"}
    /\ last.outcome = "sent"

(***************************************************************************)
(* C32: the page state a list returns.                                     *)
(***************************************************************************)

\* The page state synthesized for a list of (page, limit) that returned
\* data: the total is the number of records returned.
SynthesizedPageState(page, limit, data) ==
    Meta(page, limit, Len(data),
         Max(1, (Len(data) + limit - 1) \div limit))

\* The page state of a response: each field its meta reports, and the
\* synthesized value for each field it does not.
ReturnedPageState(res, page, limit) ==
    LET synthesized == SynthesizedPageState(page, limit, res.data)
    IN  IF res.meta = Null THEN synthesized
        ELSE [field \in {"page", "limit", "total", "pages"} |->
                IF field \in DOMAIN res.meta THEN res.meta[field]
                ELSE synthesized[field]]

\* The successful answers to the list request of the flow in slot i, those
\* with a partial meta among them.
ListAnswers(i) ==
    Answers(i) \cup {Ok([data |-> data, meta |-> meta]) :
                       data \in TodoPages \ {<<>>}, meta \in PartialMetas}

\* C32: for every list request in flight and every successful response to
\* it, fetchTodos returns the records of the response with the page state
\* synthesized from the effective page and page size of the request, each
\* field replaced by the one the response's meta reports; and the step that
\* handles a successful list response leaves the held records, page state,
\* page and page size equal to those fetchTodos returned for one of the
\* responses.
C32_ListReturnsPageState ==
    /\ [](\A i \in 1 .. Len(tasks) :
            tasks[i].await = "list" =>
              \A res \in ListAnswers(i) :
                 FetchTodosResult(res.data, tasks[i].request.path.page,
                                  tasks[i].request.path.limit)
                   = [data |-> res.data.data,
                      meta |-> ReturnedPageState(res.data,
                                  tasks[i].request.path.page,
                                  tasks[i].request.path.limit)])
    /\ [][(last'.op = "ListResponse" /\ last'.outcome = "ok") =>
            \E res \in ListAnswers(last'.slot) :
               LET got == FetchTodosResult(res.data,
                             tasks[last'.slot].request.path.page,
                             tasks[last'.slot].request.path.limit)
               IN  /\ app'.todos = got.data
                   /\ app'.todoMeta = got.meta
                   /\ app'.todoPage = got.meta.page
                   /\ app'.todoPageSize = got.meta.limit
         ]_vars

\* A list response whose meta reported the page and the page size only has
\* been handled: the held page state has the reported page and page size,
\* and the total and the page count synthesized from the records.
C32_PartialMetaCompleted ==
    /\ last.op = "ListResponse"
    /\ last.outcome = "ok"
    /\ app.todos # <<>>
    /\ \E m \in PartialMetas :
          /\ app.todoMeta.page = m.page
          /\ app.todoMeta.limit = m.limit
          /\ app.todoPage = m.page
          /\ app.todoPageSize = m.limit
    /\ app.todoMeta.total = Len(app.todos)
    /\ app.todoMeta.pages = 1

(***************************************************************************)
(* C33: the held page and page size stay in range.                         *)
(***************************************************************************)

\* C33: in every reachable state the held page is at least 1 and the held
\* page size is between 1 and 100, whatever meta a list response carried
\* and whatever page or page size was asked for.
C33_PageStateInRange ==
    /\ app.todoPage >= 1
    /\ app.todoPageSize >= 1
    /\ app.todoPageSize <= 100

(***************************************************************************)
(* C34: the project of a verified session.                                 *)
(***************************************************************************)

\* The step handled a successful verify response and the flow went on to
\* ask for the profile with the session verifyMagicToken returned.
VerifyProducedSession ==
    /\ last'.op = "VerifyResponse"
    /\ last'.outcome = "ok"
    /\ last'.slot <= Len(tasks')
    /\ tasks'[last'.slot].flow = "verify"
    /\ tasks'[last'.slot].await = "profile"

\* C34: the session a successful verify produced, and the project
\* identifier persistSession stores beside it, are of the project of the
\* configuration the verify was requested under.
C34_VerifiedSessionOfConfigProject ==
    [][VerifyProducedSession =>
         LET newSession == tasks'[last'.slot].session
             stored == JsonParse(persistSession(newSession, config, TRUE,
                                                NoItem))
         IN  /\ newSession.projectId = config.projectId
             /\ stored.projectId = config.projectId
             /\ stored.session.projectId = config.projectId
      ]_vars

(***************************************************************************)
(* C35: a record deleted is gone from the records held.                    *)
(***************************************************************************)

\* The step ends a delete flow whose delete request succeeded: it handles
\* the answer to the list request that followed, or the answer to the
\* delete request where refreshTodos returned without listing.
DeleteCompleted ==
    /\ Len(tasks') < Len(tasks)
    /\ tasks[last'.slot].flow = "delete"
    /\ \/ last'.op = "ListResponse"
       \/ last'.op = "DeleteResponse" /\ last'.outcome = "ok"

\* C35: when a delete flow whose delete request succeeded ends, the record
\* deleted is not among the records held, also when the list request that
\* followed failed.  (Where that list request succeeded the records held are
\* the ones the service returned, which no longer has the record.)
C35_DeletedRecordGone ==
    [][(/\ last'.op \in {"ListResponse", "DeleteResponse"}
        /\ DeleteCompleted
        /\ ~(last'.op = "ListResponse" /\ last'.outcome = "ok")) =>
          \A k \in 1 .. Len(app'.todos) :
             app'.todos[k].id # tasks[last'.slot].id
      ]_vars

(***************************************************************************)
(* C36: the completion filter.                                             *)
(***************************************************************************)

\* The positions of the records held whose completion flag is the one the
\* filter asks for.
MatchingPositions(a) ==
    {k \in 1 .. Len(a.todos) :
       \/ a.filter = "all"
       \/ a.filter = "completed" /\ normalizeTodo(a.todos[k]).completed
       \/ a.filter = "active" /\ ~normalizeTodo(a.todos[k]).completed}

\* rows holds the records at the positions ks of todos, in the order of
\* todos.
IsSelection(rows, todos, ks) ==
    /\ Len(rows) = Cardinality(ks)
    /\ \A n \in 1 .. Len(rows) :
          \E k \in ks :
             /\ rows[n] = todos[k]
             /\ Cardinality({j \in ks : j < k}) = n - 1

\* C36: choosing a filter sends no request and leaves the records held and
\* the page state as they were; in every state the rows shown are the
\* records held whose completion flag matches the filter, in the order
\* held, and under "all" they are the records held.
C36_FilterSelectsLoadedRecords ==
    /\ [](/\ IsSelection(visibleTodos(app), app.todos,
                         MatchingPositions(app))
          /\ app.filter = "all" => visibleTodos(app) = app.todos)
    /\ [][last'.op = "setFilter" =>
            /\ tasks' = tasks
            /\ app'.todos = app.todos
            /\ app'.todoMeta = app.todoMeta
            /\ app'.todoPage = app.todoPage
            /\ app'.todoPageSize = app.todoPageSize
         ]_vars

\* The filter "active" has been chosen over two records, the first active
\* and the second completed: one row is shown, the first record.
C36_ActiveOfTwoShown ==
    /\ last.op = "setFilter"
    /\ app.filter = "active"
    /\ Len(app.todos) = 2
    /\ ~normalizeTodo(app.todos[1]).completed
    /\ normalizeTodo(app.todos[2]).completed
    /\ visibleTodos(app) = <<app.todos[1]>>

(***************************************************************************)
(* C37: what the transport makes of a response.                            *)
(***************************************************************************)

\* The body of a response as parsed: null for an empty body, the text
\* itself where it is not JSON.
ParsedBody(response) ==
    IF response.text = NoItem THEN Null
    ELSE IF response.text.shape = "json" THEN JsonParse(response.text)
    ELSE response.text

\* The parsed body is a JSON object that has the field.
HasField(body, name) ==
    /\ body # Null
    /\ "shape" \notin DOMAIN body
    /\ name \in DOMAIN body

\* The transport has handled a response.
ResponseHandled == last.op = "jsonRequest"

\* What C37 requires of a response that is ok: no error, and the parsed
\* body returned, the empty object for an empty body.
SuccessReturned ==
    (ResponseHandled /\ last.call.response.ok) =>
       /\ ~last.call.threw
       /\ last.call.response.text = NoItem =>
            (last.call.value # Null /\ DOMAIN last.call.value = {})
       /\ ParsedBody(last.call.response) # Null =>
            last.call.value = ParsedBody(last.call.response)

\* C37 as stated: a response that is not ok raises an error with the status
\* and the parsed body, whose message is the error field of the body if it
\* has one, else its message field if it has one, else the status text if
\* there is one, else "Request failed"; a response that is ok with an empty
\* body returns the empty object.
C37_ErrorFromResponse ==
    /\ SuccessReturned
    /\ (ResponseHandled /\ ~last.call.response.ok) =>
         LET response == last.call.response
             body == ParsedBody(response)
         IN  /\ last.call.threw
             /\ last.call.status = response.status
             /\ last.call.details = body
             /\ last.call.message =
                  IF HasField(body, "error") THEN body.error
                  ELSE IF HasField(body, "message") THEN body.message
                  ELSE IF response.statusText # "" THEN response.statusText
                  ELSE "Request failed"

\* C37 amended: the same, where an error field or a message field that is
\* empty counts as absent: the message is the error field if the body has a
\* non-empty one, else the message field if it has a non-empty one, else
\* the status text if there is one, else "Request failed".
C37_ErrorFromNonEmptyFields ==
    /\ SuccessReturned
    /\ (ResponseHandled /\ ~last.call.response.ok) =>
         LET response == last.call.response
             body == ParsedBody(response)
         IN  /\ last.call.threw
             /\ last.call.status = response.status
             /\ last.call.details = body
             /\ last.call.message =
                  IF HasField(body, "error") /\ body.error # ""
                  THEN body.error
                  ELSE IF HasField(body, "message") /\ body.message # ""
                  THEN body.message
                  ELSE IF response.statusText # "" THEN response.statusText
                  ELSE "Request failed"

\* A response that is not ok, whose body has an empty error field and a
\* message field, has been handled: the error raised has the text of the
\* message field.
C37_EmptyErrorFieldSkipped ==
    /\ ResponseHandled
    /\ ~last.call.response.ok
    /\ HasField(ParsedBody(last.call.response), "error")
    /\ ParsedBody(last.call.response).error = ""
    /\ HasField(ParsedBody(last.call.response), "message")
    /\ ParsedBody(last.call.response).message = "m"
    /\ last.call.threw
    /\ last.call.message = "m"

(***************************************************************************)
(* C38: responses and the session they were asked under.                   *)
(***************************************************************************)

\* The step sets the profile or the records from a successful response.
SetFromResponse ==
    /\ last'.op \in {"ProfileResponse", "ListResponse"}
    /\ last'.outcome = "ok"

\* The step handles a successful response and goes on to list the records.
FollowUpListSent ==
    /\ last'.op \in {"ProfileResponse", "CreateResponse", "DeleteResponse"}
    /\ last'.outcome = "ok"
    /\ last'.slot <= Len(tasks')
    /\ tasks'[last'.slot].await = "list"

\* C38: when the profile or the records are set from a response while a
\* session is held, the request was sent with the token of that session;
\* and a list request that follows a response is sent with the token of the
\* session held.
C38_ResponseOfCurrentSession ==
    [][/\ (SetFromResponse /\ app.session # Null) =>
            tasks[last'.slot].request.authorization = app.session.token
       /\ (FollowUpListSent /\ app'.session # Null) =>
            tasks'[last'.slot].request.authorization = app'.session.token
      ]_vars

(***************************************************************************)
(* C39: nothing of a session is held without a session.                    *)
(***************************************************************************)

\* C39: in every state without a session held the records are empty and
\* there is neither a page state nor a profile, also after a list or a
\* profile response that arrived once the operator had signed out.
C39_SignedOutHoldsNothing ==
    app.session = Null =>
       /\ app.todos = <<>>
       /\ app.todoMeta = Null
       /\ app.profile = Null

(***************************************************************************)
(* C40: overlapping list requests.                                         *)
(***************************************************************************)

\* Two list responses are handled one after the other, the second of them
\* to the request issued first: the flow handled now was started by a
\* refresh, a page change or a page size change before the flow handled in
\* the step before, it asked for another page size than the one now held
\* (one the page size select offers), and no list request is left in
\* flight.
OlderListAnsweredLast ==
    /\ app.todoPageSize \in PageSizeOptions
    /\ tasks[last'.slot].request.path.limit # app.todoPageSize
    /\ last.op = "ListResponse"
    /\ last.outcome = "ok"
    /\ last'.op = "ListResponse"
    /\ last'.outcome = "ok"
    /\ last'.slot < last.slot
    /\ tasks[last'.slot].flow = "refresh"
    /\ InFlight(tasks', "list") = 0

\* C40: when the responses to two overlapping list requests have been
\* handled the records and the page state held are those of the request
\* issued last: the response to the older request, handled after the
\* response to the newer one, leaves them as that one set them.
C40_LatestListWins ==
    [][(last'.op = "ListResponse" /\ OlderListAnsweredLast) =>
         /\ app'.todos = app.todos
         /\ app'.todoMeta = app.todoMeta
         /\ app'.todoPage = app.todoPage
         /\ app'.todoPageSize = app.todoPageSize
      ]_vars

====
